---- MODULE Spec2Model ----
(***************************************************************************)
(* Model of the hunter-versus-demon game: the simulation tick updateGame   *)
(* (utils/gameLogic) and the client side of the peer-to-peer protocol      *)
(* (App.tsx, joinGame and loop).                                           *)
(*                                                                         *)
(* Numbers.  The program computes on floating point numbers; the model     *)
(* computes on integers:                                                   *)
(*   - time (dt, nightTimer, enterTimer, stunTimer, timeLeft, ...) is      *)
(*     counted in whole seconds;                                           *)
(*   - timeOfDay is a fixed-point number with ONE = 1.0;                   *)
(*   - cooldown and the deer timers are counted in frames (dt * FPS);      *)
(*   - positions are whole pixels, unit vectors are in thousandths         *)
(*     (a diagonal unit vector is (707, 707)), and a displacement is       *)
(*     rounded to the nearest pixel;                                       *)
(*   - an angle is a multiple of PI/4, kept as a number in 0..7;           *)
(*   - distance(a, b) < r is decided on the squares.                       *)
(* The values of constants.ts and the pixel literals of the program are    *)
(* scaled down so that a day, a night and a walk to the cabin take a few   *)
(* ticks.                                                                  *)
(***************************************************************************)
EXTENDS Integers, Sequences, FiniteSets, TLC

\* gameState  the game state of the App that runs the simulation
\* call       the last call of updateGame: its arguments, the state object
\*            that was passed in as it is after the call, the messages added
\* ticks      the number of calls made
\* hostApp    the refs and React state of the hosting App
\* clientApp  the refs and React state of the joining App
\* conns      the data connections: how each side sees them, what is in flight
\* delivered  the last packet the client's data handler has handled, with the
\*            App before and after it
\* received   the last packet the host's data handler has handled, with the
\*            number of host ticks made before it
VARIABLES gameState, call, ticks, hostApp, clientApp, conns, delivered, received

simVars == <<gameState, call, ticks>>
netVars == <<hostApp, clientApp, conns, delivered, received>>
vars == <<gameState, call, ticks, hostApp, clientApp, conns, delivered, received>>

(***************************************************************************)
(* Bounds of the exploration.                                              *)
(***************************************************************************)
MaxTicks == 1
MaxDt == 1
MaxConns == 2
MaxInFlight == 1
MaxFrames == 1
\* the ticks of the host in a match with its client
MaxHostTicks == 2
\* the fractions of a pixel a position can have
SubPixel == 4
\* the ticks of a second on the fine clock, and the ticks of a night on it
TimeUnit == 2
MaxCabinTicks == 5
\* the PINGs of the two peers
MaxPings == 3
\* the frames of the client toward one target
MaxLerpFrames == 2

(***************************************************************************)
(* constants.ts (scaled)                                                   *)
(***************************************************************************)
MAP_SIZE == 40
FPS == 2
MOVE_SPEED_HUNTER == 1
MOVE_SPEED_DEMON == 1
MOVE_SPEED_DEER == 1
SHOOT_COOLDOWN == 4
BULLET_SPEED == 1
DAY_DURATION_SECONDS == 5
NIGHT_DURATION_SECONDS == 4
SHOOT_PENALTY_SECONDS == 2
CABIN_ENTER_DURATION == 2
DEMON_STUN_DURATION == 3
DEMON_TRACKING_DURATION == 3
\* TREE_COLLISION_RATIO, in percent
TREE_COLLISION_RATIO == 50
\* 1.0 of the fixed-point timeOfDay
ONE == 1000
\* DEMON_EAT_BONUS, a fraction of the day, in the fixed point of timeOfDay
DEMON_EAT_BONUS == 100

(***************************************************************************)
(* Literals of the program (scaled)                                        *)
(***************************************************************************)
HUNTER_SIZE == 2
DEMON_SIZE == 2
CABIN_SIZE == 4
DEER_SIZE == 2
TREE_SIZE == 4
HUNTER_START_OFFSET == 12
CABIN_ENTRY_MARGIN == 6
MUZZLE_OFFSET == 1
BULLET_RADIUS == 1
HIT_MARGIN == 1
EAT_RANGE == 3
MESSAGE_TTL == 2
MAX_MESSAGES == 5
MUSHROOM_TARGET == 3
DEER_TARGET == 2
RESPAWN_ATTEMPTS == 1
MUSHROOM_SPAWN_RADIUS == 1
MUSHROOM_MIN_GAP == 4
DEER_SPAWN_RADIUS == 2
DEER_SPAWN_TIMER == 2
DEER_TIMER_BASE == 2
DEER_TIMER_SPREAD == 1
NIGHT_SPEED_TENTHS == 13

GamePhase == {"MENU", "LOBBY", "JOINING", "START", "PLAYING",
              "GAME_OVER_HUNTER_WINS", "GAME_OVER_DEMON_WINS"}

(***************************************************************************)
(* Helper math                                                             *)
(***************************************************************************)
Vec(px, py) == [x |-> px, y |-> py]

Abs(n) == IF n < 0 THEN 0 - n ELSE n

\* n / d rounded to the nearest integer, halves away from zero (d > 0)
Round(n, d) == IF n < 0 THEN 0 - ((2 * (0 - n) + d) \div (2 * d))
                        ELSE (2 * n + d) \div (2 * d)

\* squared distance; distance(a, b) < r  is  Dist2(a, b) < r * r
Dist2(a, b) == (a.x - b.x) * (a.x - b.x) + (a.y - b.y) * (a.y - b.y)

distanceLess(a, b, r) == Dist2(a, b) < r * r

add(a, b) == Vec(a.x + b.x, a.y + b.y)

sub(a, b) == Vec(a.x - b.x, a.y - b.y)

\* scale(v, s) for a vector v in thousandths and a length s in thousandths
scale(v, s) == Vec(Round(v.x * s, 1000000), Round(v.y * s, 1000000))

\* the unit vector of a move vector with components in {-1, 0, 1}
\* a direction that keeps the length of the key vector
normalizeNot(v) == Vec(1000 * v.x, 1000 * v.y)

normalize(v) ==
    IF v.x = 0 /\ v.y = 0 THEN Vec(0, 0)
    ELSE IF v.x # 0 /\ v.y # 0 THEN Vec(707 * v.x, 707 * v.y)
    ELSE Vec(1000 * v.x, 1000 * v.y)

\* Math.atan2(y, x) of a unit vector, in multiples of PI/4 (y grows downward)
atan2(v) ==
    CASE v.x > 0 /\ v.y = 0 -> 0
      [] v.x > 0 /\ v.y > 0 -> 1
      [] v.x = 0 /\ v.y > 0 -> 2
      [] v.x < 0 /\ v.y > 0 -> 3
      [] v.x < 0 /\ v.y = 0 -> 4
      [] v.x < 0 /\ v.y < 0 -> 5
      [] v.x = 0 /\ v.y < 0 -> 6
      [] v.x > 0 /\ v.y < 0 -> 7
      [] OTHER -> 0

\* (cos a, sin a) in thousandths
angleDir(a) ==
    CASE a % 8 = 0 -> Vec(1000, 0)
      [] a % 8 = 1 -> Vec(707, 707)
      [] a % 8 = 2 -> Vec(0, 1000)
      [] a % 8 = 3 -> Vec(-707, 707)
      [] a % 8 = 4 -> Vec(-1000, 0)
      [] a % 8 = 5 -> Vec(-707, -707)
      [] a % 8 = 6 -> Vec(0, -1000)
      [] OTHER -> Vec(707, -707)

Min(a, b) == IF a < b THEN a ELSE b
Max(a, b) == IF a > b THEN a ELSE b

(***************************************************************************)
(* Messages                                                                *)
(***************************************************************************)
addMessage(messages, text) ==
    LET all == <<[text |-> text, timeLeft |-> MESSAGE_TTL]>> \o messages
    IN  SubSeq(all, 1, Min(Len(all), MAX_MESSAGES))

(***************************************************************************)
(* Collision                                                               *)
(***************************************************************************)
checkRectCircleCollision(rectCenter, rectHalfSize, circleCenter, circleRadius) ==
    LET distX == Abs(circleCenter.x - rectCenter.x)
        distY == Abs(circleCenter.y - rectCenter.y)
        dx == distX - rectHalfSize
        dy == distY - rectHalfSize
    IN  IF distX > rectHalfSize + circleRadius THEN FALSE
        ELSE IF distY > rectHalfSize + circleRadius THEN FALSE
        ELSE IF distX <= rectHalfSize THEN TRUE
        ELSE IF distY <= rectHalfSize THEN TRUE
        ELSE dx * dx + dy * dy <= circleRadius * circleRadius

treeHalfSize(obs) == (obs.size * TREE_COLLISION_RATIO) \div 100

outOfMap(pos, radius) ==
    \/ pos.x < radius
    \/ pos.x > MAP_SIZE - radius
    \/ pos.y < radius
    \/ pos.y > MAP_SIZE - radius

hitsObstacle(pos, radius, obs) ==
    IF obs.type = "TREE"
    THEN checkRectCircleCollision(obs.pos, treeHalfSize(obs), pos, radius)
    ELSE distanceLess(pos, obs.pos, radius + obs.size)

checkCollision(pos, radius, obstacles) ==
    \/ outOfMap(pos, radius)
    \/ \E i \in 1..Len(obstacles) : hitsObstacle(pos, radius, obstacles[i])

(***************************************************************************)
(* updateGame.  A call works on a context c:                               *)
(*   c.s    newState, the state that is returned;                          *)
(*   c.inp  the state object that was passed in, as it is after the        *)
(*          call: newState is a shallow copy, so the message objects and   *)
(*          the pos objects of hunter and demon are shared with it until   *)
(*          newState replaces them;                                        *)
(*   c.ev   the texts given to addMessage, in order.                       *)
(***************************************************************************)
\* a guard that knows only one of the two game-over phases
isGameOverHunterOnly(phase) ==
    phase = "GAME_OVER_HUNTER_WINS"

isGameOver(phase) ==
    phase = "GAME_OVER_HUNTER_WINS" \/ phase = "GAME_OVER_DEMON_WINS"

obstaclesOf(state) == state.trees \o <<state.cabin>>

say(c, text) ==
    [c EXCEPT !.s.messages = addMessage(@, text), !.ev = Append(@, text)]

\* Messages TTL: the filter callback decrements the shared message objects
messagesTTL(c, dt) ==
    LET aged == [i \in 1..Len(c.s.messages) |->
                    [c.s.messages[i] EXCEPT !.timeLeft = @ - dt]]
        alive(m) == m.timeLeft > 0
    IN  [c EXCEPT !.s.messages = SelectSeq(aged, alive),
                  !.inp.messages = aged]

RECURSIVE respawnMushrooms(_, _, _)
respawnMushrooms(mushrooms, draws, obstacles) ==
    IF Len(mushrooms) >= MUSHROOM_TARGET \/ draws = <<>> THEN mushrooms
    ELSE LET pos == Head(draws)
             tooClose == \E i \in 1..Len(mushrooms) :
                            distanceLess(mushrooms[i].pos, pos, MUSHROOM_MIN_GAP)
             ok == ~checkCollision(pos, MUSHROOM_SPAWN_RADIUS, obstacles) /\ ~tooClose
         IN  respawnMushrooms(IF ok THEN Append(mushrooms, [pos |-> pos]) ELSE mushrooms,
                              Tail(draws), obstacles)

\* the id of a respawned deer: one that no deer of the list has
freshDeerId(deers) ==
    CHOOSE n \in 1..(Len(deers) + 1) :
        /\ \A i \in 1..Len(deers) : deers[i].id # n
        /\ \A k \in 1..(n - 1) : \E i \in 1..Len(deers) : deers[i].id = k

RECURSIVE respawnDeers(_, _, _)
respawnDeers(deers, draws, obstacles) ==
    IF Len(deers) >= DEER_TARGET \/ draws = <<>> THEN deers
    ELSE LET d == Head(draws)
             ok == ~checkCollision(d.pos, DEER_SPAWN_RADIUS, obstacles)
             deer == [id |-> freshDeerId(deers), pos |-> d.pos, size |-> DEER_SIZE,
                      angle |-> d.angle, moving |-> d.moving, timer |-> DEER_SPAWN_TIMER]
         IN  respawnDeers(IF ok THEN Append(deers, deer) ELSE deers,
                          Tail(draws), obstacles)

\* a dawn that leaves the hunter in the cabin
dawnKeepsShelter(c, rnd) ==
    say([c EXCEPT !.s.isNight = FALSE,
                  !.s.nightTimer = 0,
                  !.s.timeOfDay = 0,
                  !.s.demon.isRevealed = FALSE,
                  !.s.demon.canTrack = FALSE],
        "DAWN")

\* night to day: "Loop Day Logic"
dawn(c, rnd) ==
    LET c1 == [c EXCEPT !.s.isNight = FALSE,
                        !.s.nightTimer = 0,
                        !.s.timeOfDay = 0,
                        !.s.hunter.inCabin = FALSE,
                        !.s.demon.isRevealed = FALSE,
                        !.s.demon.canTrack = FALSE]
        c2 == say(c1, "DAWN")
        obstacles == obstaclesOf(c.s)
    IN  [c2 EXCEPT !.s.mushrooms = respawnMushrooms(@, rnd.mushrooms, obstacles),
                   !.s.deers = respawnDeers(@, rnd.deers, obstacles)]

\* a nightfall that does not reveal the demon
nightfallHidden(c) ==
    say([c EXCEPT !.s.isNight = TRUE,
                  !.s.nightTimer = 0,
                  !.s.hunter.inCabin = FALSE,
                  !.s.demon.canTrack = TRUE],
        "NIGHT_FALLS")

\* day to night
nightfall(c) ==
    LET c1 == [c EXCEPT !.s.isNight = TRUE,
                        !.s.nightTimer = 0,
                        !.s.hunter.inCabin = FALSE]
        c2 == say(c1, "NIGHT_FALLS")
    IN  [c2 EXCEPT !.s.demon.isRevealed = TRUE,
                   !.s.demon.canTrack = TRUE]

\* a cycle that lets the day timer run at night as well
dayNightCycleBoth(c, dt, rnd) ==
    LET c0 == [c EXCEPT !.s.timeOfDay = @ + (dt * ONE) \div DAY_DURATION_SECONDS]
    IN  IF c.s.isNight
        THEN LET c1 == [c0 EXCEPT !.s.nightTimer = @ + dt]
             IN  IF c1.s.nightTimer >= NIGHT_DURATION_SECONDS THEN dawn(c1, rnd) ELSE c1
        ELSE IF c0.s.timeOfDay >= ONE THEN nightfall(c0) ELSE c0

\* a cycle that tests timeOfDay >= 1.0 at night as well
dayNightCycleRetrigger(c, dt, rnd) ==
    LET c1 == IF c.s.isNight
              THEN [c EXCEPT !.s.nightTimer = @ + dt]
              ELSE [c EXCEPT !.s.timeOfDay = @ + (dt * ONE) \div DAY_DURATION_SECONDS]
    IN  IF c1.s.isNight /\ c1.s.nightTimer >= NIGHT_DURATION_SECONDS THEN dawn(c1, rnd)
        ELSE IF c1.s.timeOfDay >= ONE THEN nightfall(c1)
        ELSE c1

dayNightCycle(c, dt, rnd) ==
    IF c.s.isNight
    THEN LET c1 == [c EXCEPT !.s.nightTimer = @ + dt]
         IN  IF c1.s.nightTimer >= NIGHT_DURATION_SECONDS THEN dawn(c1, rnd) ELSE c1
    ELSE LET c1 == [c EXCEPT !.s.timeOfDay = @ + (dt * ONE) \div DAY_DURATION_SECONDS]
         IN  IF c1.s.timeOfDay >= ONE THEN nightfall(c1) ELSE c1

moveVector(input) ==
    Vec((IF input.right THEN 1 ELSE 0) - (IF input.left THEN 1 ELSE 0),
        (IF input.down THEN 1 ELSE 0) - (IF input.up THEN 1 ELSE 0))

\* a sliding that does not test the destination along y
slideUnchecked(pos, nextPos, size, obstacles) ==
    IF ~checkCollision(nextPos, size, obstacles)
    THEN [pos |-> nextPos, slid |-> FALSE]
    ELSE IF ~checkCollision(Vec(nextPos.x, pos.y), size, obstacles)
    THEN [pos |-> Vec(nextPos.x, pos.y), slid |-> TRUE]
    ELSE [pos |-> Vec(pos.x, nextPos.y), slid |-> TRUE]

\* a move that stops at the obstacle
slideStops(pos, nextPos, size, obstacles) ==
    IF ~checkCollision(nextPos, size, obstacles)
    THEN [pos |-> nextPos, slid |-> FALSE]
    ELSE [pos |-> pos, slid |-> FALSE]

\* Full move, else sliding along x, else along y.  slid: the pos object was
\* written in place.
slide(pos, nextPos, size, obstacles) ==
    IF ~checkCollision(nextPos, size, obstacles)
    THEN [pos |-> nextPos, slid |-> FALSE]
    ELSE IF ~checkCollision(Vec(nextPos.x, pos.y), size, obstacles)
    THEN [pos |-> Vec(nextPos.x, pos.y), slid |-> TRUE]
    ELSE IF ~checkCollision(Vec(pos.x, nextPos.y), size, obstacles)
    THEN [pos |-> Vec(pos.x, nextPos.y), slid |-> TRUE]
    ELSE [pos |-> pos, slid |-> FALSE]

\* dt and the timers count 1/unit second
hunterMovementAt(c, hunterInput, dt, unit) ==
    LET hMove == normalize(moveVector(hunterInput))
        moveDist == (1000 * MOVE_SPEED_HUNTER * dt * FPS) \div unit
        nextPos == add(c.s.hunter.pos, scale(hMove, moveDist))
        m == slide(c.s.hunter.pos, nextPos, c.s.hunter.size, obstaclesOf(c.s))
    IN  IF c.s.hunter.inCabin \/ hMove = Vec(0, 0) THEN c
        ELSE [c EXCEPT !.s.hunter.angle = atan2(hMove),
                       !.s.hunter.pos = m.pos,
                       !.inp.hunter.pos = IF m.slid THEN m.pos ELSE @]

hunterMovement(c, hunterInput, dt) == hunterMovementAt(c, hunterInput, dt, 1)

cabinEntryAt(c, dt, unit) ==
    LET inRange == distanceLess(c.s.hunter.pos, c.s.cabin.pos,
                                c.s.cabin.size + CABIN_ENTRY_MARGIN)
    IN  IF c.s.isNight /\ inRange /\ ~c.s.hunter.inCabin
        THEN LET c1 == [c EXCEPT !.s.hunter.enterTimer = @ + dt]
             IN  IF c1.s.hunter.enterTimer >= CABIN_ENTER_DURATION * unit
                 THEN say([c1 EXCEPT !.s.hunter.inCabin = TRUE,
                                     !.s.hunter.enterTimer = 0],
                          "HUNTER_IN_CABIN")
                 ELSE c1
        ELSE [c EXCEPT !.s.hunter.enterTimer = Max(0, @ - dt * 2)]

\* a cabin that lets the hunter in by day as well
cabinEntryByDay(c, dt) ==
    LET inRange == distanceLess(c.s.hunter.pos, c.s.cabin.pos,
                                c.s.cabin.size + CABIN_ENTRY_MARGIN)
    IN  IF inRange /\ ~c.s.hunter.inCabin
        THEN LET c1 == [c EXCEPT !.s.hunter.enterTimer = @ + dt]
             IN  IF c1.s.hunter.enterTimer >= CABIN_ENTER_DURATION
                 THEN [c1 EXCEPT !.s.hunter.inCabin = TRUE, !.s.hunter.enterTimer = 0]
                 ELSE c1
        ELSE [c EXCEPT !.s.hunter.enterTimer = Max(0, @ - dt * 2)]

cabinEntry(c, dt) == cabinEntryAt(c, dt, 1)

shootPenalty(c) ==
    LET penalty == (SHOOT_PENALTY_SECONDS * ONE) \div DAY_DURATION_SECONDS
    IN  say([c EXCEPT !.s.timeOfDay = Min(ONE, @ + penalty)], "SHOT_PENALTY")

shooting(c, hunterInput, dt) ==
    LET c1 == IF c.s.hunter.cooldown > 0
              THEN [c EXCEPT !.s.hunter.cooldown = @ - dt * FPS]
              ELSE c
        dir == angleDir(c1.s.hunter.angle)
        startPos == add(c1.s.hunter.pos, scale(dir, 1000 * (c1.s.hunter.size + MUZZLE_OFFSET)))
        velocity == Vec(dir.x * BULLET_SPEED, dir.y * BULLET_SPEED)
        c2 == [c1 EXCEPT !.s.hunter.cooldown = SHOOT_COOLDOWN,
                         !.s.bullets = Append(@, [pos |-> startPos,
                                                  velocity |-> velocity,
                                                  active |-> TRUE])]
    IN  IF hunterInput.action /\ c1.s.hunter.cooldown <= 0 /\ ~c1.s.hunter.inCabin
        THEN IF ~c2.s.isNight THEN shootPenalty(c2) ELSE c2
        ELSE c1

\* a movement that goes on while the stun timer runs
demonMovementStunned(c, demonInput, dt) ==
    LET dMove == normalize(moveVector(demonInput))
        currentSpeed == IF c.s.isNight
                        THEN MOVE_SPEED_DEMON * NIGHT_SPEED_TENTHS * 100
                        ELSE MOVE_SPEED_DEER * 1000
        moveDist == currentSpeed * dt * FPS
        nextPos == add(c.s.demon.pos, scale(dMove, moveDist))
        m == slide(c.s.demon.pos, nextPos, c.s.demon.size, obstaclesOf(c.s))
        c1 == IF c.s.demon.stunTimer > 0
              THEN [c EXCEPT !.s.demon.stunTimer = @ - dt]
              ELSE c
    IN  IF dMove = Vec(0, 0) THEN c1
        ELSE [c1 EXCEPT !.s.demon.angle = atan2(dMove),
                        !.s.demon.pos = m.pos,
                        !.inp.demon.pos = IF m.slid THEN m.pos ELSE @]

demonMovement(c, demonInput, dt) ==
    LET dMove == normalize(moveVector(demonInput))
        \* currentSpeed * 1000: MOVE_SPEED_DEMON * 1.3 at night
        currentSpeed == IF c.s.isNight
                        THEN MOVE_SPEED_DEMON * NIGHT_SPEED_TENTHS * 100
                        ELSE MOVE_SPEED_DEER * 1000
        moveDist == currentSpeed * dt * FPS
        nextPos == add(c.s.demon.pos, scale(dMove, moveDist))
        m == slide(c.s.demon.pos, nextPos, c.s.demon.size, obstaclesOf(c.s))
    IN  IF c.s.demon.stunTimer > 0
        THEN [c EXCEPT !.s.demon.stunTimer = @ - dt]
        ELSE IF dMove = Vec(0, 0) THEN c
        ELSE [c EXCEPT !.s.demon.angle = atan2(dMove),
                       !.s.demon.pos = m.pos,
                       !.inp.demon.pos = IF m.slid THEN m.pos ELSE @]

\* a skill that does not look at the charge
trackingWithoutCharge(c, demonInput, dt) ==
    LET c1 == IF c.s.demon.trackingActiveTime > 0
              THEN [c EXCEPT !.s.demon.trackingActiveTime = @ - dt]
              ELSE c
    IN  IF demonInput.action /\ 2 * c1.s.nightTimer > 1
        THEN say([c1 EXCEPT !.s.demon.canTrack = FALSE,
                            !.s.demon.trackingActiveTime = DEMON_TRACKING_DURATION],
                 "DEMON_SENSING")
        ELSE c1

tracking(c, demonInput, dt) ==
    LET c1 == IF c.s.demon.trackingActiveTime > 0
              THEN [c EXCEPT !.s.demon.trackingActiveTime = @ - dt]
              ELSE c
    IN  \* nightTimer > 0.5
        IF demonInput.action /\ c1.s.demon.canTrack /\ 2 * c1.s.nightTimer > 1
        THEN say([c1 EXCEPT !.s.demon.canTrack = FALSE,
                            !.s.demon.trackingActiveTime = DEMON_TRACKING_DURATION],
                 "DEMON_SENSING")
        ELSE c1

\* a contact kill that does not look at the cabin
attackSheltered(c) ==
    IF /\ c.s.demon.stunTimer <= 0
       /\ distanceLess(c.s.demon.pos, c.s.hunter.pos, c.s.demon.size + c.s.hunter.size)
    THEN say([c EXCEPT !.s.phase = "GAME_OVER_DEMON_WINS"], "HUNTER_CAUGHT")
    ELSE c

attack(c) ==
    IF /\ ~c.s.hunter.inCabin
       /\ c.s.demon.stunTimer <= 0
       /\ distanceLess(c.s.demon.pos, c.s.hunter.pos, c.s.demon.size + c.s.hunter.size)
    THEN say([c EXCEPT !.s.phase = "GAME_OVER_DEMON_WINS"], "HUNTER_CAUGHT")
    ELSE c

\* the filter removes the first mushroom of the list that is in range
\* a filter that removes every mushroom in range
eatMushroomAll(c) ==
    LET inRange(i) == distanceLess(c.s.demon.pos, c.s.mushrooms[i].pos, EAT_RANGE)
        hits == {i \in 1..Len(c.s.mushrooms) : inRange(i)}
        RECURSIVE keep(_)
        keep(ms) == IF ms = <<>> THEN <<>>
                    ELSE IF distanceLess(c.s.demon.pos, Head(ms).pos, EAT_RANGE)
                         THEN keep(Tail(ms))
                         ELSE <<Head(ms)>> \o keep(Tail(ms))
    IN  IF hits = {} THEN c
        ELSE say([c EXCEPT !.s.mushrooms = keep(@),
                           !.s.timeOfDay = Min(ONE, @ + DEMON_EAT_BONUS)],
                 "DEMON_ATE")

eatMushroom(c) ==
    LET inRange(i) == distanceLess(c.s.demon.pos, c.s.mushrooms[i].pos, EAT_RANGE)
        hits == {i \in 1..Len(c.s.mushrooms) : inRange(i)}
        first == CHOOSE i \in hits : \A j \in hits : i <= j
        rest == [k \in 1..(Len(c.s.mushrooms) - 1) |->
                    IF k < first THEN c.s.mushrooms[k] ELSE c.s.mushrooms[k + 1]]
    IN  IF hits = {} THEN c
        ELSE say([c EXCEPT !.s.mushrooms = rest,
                           !.s.timeOfDay = Min(ONE, @ + DEMON_EAT_BONUS)],
                 "DEMON_ATE")

\* a demon that catches the hunter by day as well
demonSkillsAttackByDay(c, demonInput, dt) ==
    attack(IF c.s.isNight THEN tracking(c, demonInput, dt)
           ELSE IF demonInput.action THEN eatMushroom(c)
           ELSE c)

demonSkills(c, demonInput, dt) ==
    IF c.s.isNight THEN attack(tracking(c, demonInput, dt))
    ELSE IF demonInput.action THEN eatMushroom(c)
    ELSE c

\* one deer of the map callback; r is what Math.random() gives this deer
deerStep(deer, r, dt, obstacles) ==
    LET timer1 == deer.timer - dt * FPS
        expired == timer1 <= 0
        moving == IF expired THEN ~deer.moving ELSE deer.moving
        timer == IF expired THEN DEER_TIMER_BASE + r.timer ELSE timer1
        angle == IF expired /\ moving THEN r.angle ELSE deer.angle
        moveDist == MOVE_SPEED_DEER * dt * FPS
        nextPos == add(deer.pos, scale(angleDir(angle), 1000 * moveDist))
        d == [deer EXCEPT !.timer = timer, !.moving = moving, !.angle = angle]
    IN  IF ~moving THEN d
        ELSE IF ~checkCollision(nextPos, d.size, obstacles)
        THEN [d EXCEPT !.pos = nextPos]
        ELSE [d EXCEPT !.angle = (@ + 4) % 8]

deerWander(c, dt, rnd) ==
    [c EXCEPT !.s.deers = [i \in 1..Len(c.s.deers) |->
                              deerStep(c.s.deers[i], rnd.deerAI[i], dt, obstaclesOf(c.s))]]

\* a hit that kills at night as well
hitDemonKills(c) ==
    say([c EXCEPT !.s.phase = "GAME_OVER_HUNTER_WINS",
                  !.s.demon.isRevealed = TRUE],
        "DEMON_KILLED")

\* Hit Demon
hitDemon(c) ==
    IF c.s.isNight
    THEN say([c EXCEPT !.s.demon.stunTimer = DEMON_STUN_DURATION], "DEMON_STUNNED")
    ELSE say([c EXCEPT !.s.phase = "GAME_OVER_HUNTER_WINS",
                       !.s.demon.isRevealed = TRUE],
             "DEMON_KILLED")

\* The map callback over the bullets, in list order.  acc.c is the context,
\* acc.out the mapped bullets, acc.dead the deadDeerIds.
RECURSIVE bulletsMap(_, _, _)
bulletsMap(acc, rest, dt) ==
    IF rest = <<>> THEN acc
    ELSE LET b == Head(rest)
             c == acc.c
             move == Vec(Round(b.velocity.x * dt * FPS, 1000),
                         Round(b.velocity.y * dt * FPS, 1000))
             nextPos == add(b.pos, move)
             gone == [b EXCEPT !.active = FALSE]
             deerHits == {i \in 1..Len(c.s.deers) :
                             distanceLess(nextPos, c.s.deers[i].pos,
                                          c.s.deers[i].size + HIT_MARGIN)}
             firstDeer == CHOOSE i \in deerHits : \A j \in deerHits : i <= j
             next ==
                 IF \/ nextPos.x < 0 \/ nextPos.x > MAP_SIZE
                    \/ nextPos.y < 0 \/ nextPos.y > MAP_SIZE
                 THEN [acc EXCEPT !.out = Append(@, gone)]
                 ELSE IF checkCollision(nextPos, BULLET_RADIUS, obstaclesOf(c.s))
                 THEN [acc EXCEPT !.out = Append(@, gone)]
                 ELSE IF distanceLess(nextPos, c.s.demon.pos, c.s.demon.size + HIT_MARGIN)
                 THEN [acc EXCEPT !.c = hitDemon(c), !.out = Append(@, gone)]
                 ELSE IF deerHits # {}
                 THEN [acc EXCEPT !.dead = @ \cup {c.s.deers[firstDeer].id},
                                  !.out = Append(@, gone)]
                 ELSE [acc EXCEPT !.out = Append(@, [b EXCEPT !.pos = nextPos])]
         IN  bulletsMap(next, Tail(rest), dt)

\* a projectile loop without the filter at its end
bulletsUpdateUnfiltered(c, dt) ==
    LET acc == bulletsMap([c |-> c, out |-> <<>>, dead |-> {}], c.s.bullets, dt)
        survives(d) == d.id \notin acc.dead
    IN  [acc.c EXCEPT !.s.bullets = acc.out,
                      !.s.deers = SelectSeq(@, survives)]

bulletsUpdate(c, dt) ==
    LET acc == bulletsMap([c |-> c, out |-> <<>>, dead |-> {}], c.s.bullets, dt)
        isActive(b) == b.active
        survives(d) == d.id \notin acc.dead
    IN  [acc.c EXCEPT !.s.bullets = SelectSeq(acc.out, isActive),
                      !.s.deers = SelectSeq(@, survives)]

\* the context of updateGame(state, hunterInput, demonInput, dt); rnd is
\* what Math.random() returns during the call
updateGameCall(state, hunterInput, demonInput, dt, rnd) ==
    LET c0 == [s |-> state, inp |-> state, ev |-> <<>>]
        c1 == dayNightCycle(messagesTTL(c0, dt), dt, rnd)
        c2 == shooting(cabinEntry(hunterMovement(c1, hunterInput, dt), dt), hunterInput, dt)
        c3 == demonSkills(demonMovement(c2, demonInput, dt), demonInput, dt)
    IN  IF isGameOver(state.phase) THEN c0
        ELSE bulletsUpdate(deerWander(c3, dt, rnd), dt)

updateGame(state, hunterInput, demonInput, dt, rnd) ==
    updateGameCall(state, hunterInput, demonInput, dt, rnd).s

(***************************************************************************)
(* Inputs                                                                  *)
(***************************************************************************)
PlayerInput == [up : BOOLEAN, down : BOOLEAN, left : BOOLEAN, right : BOOLEAN,
                action : BOOLEAN]

Keys(u, d, l, r, a) == [up |-> u, down |-> d, left |-> l, right |-> r, action |-> a]

noInput == Keys(FALSE, FALSE, FALSE, FALSE, FALSE)

keyAction == Keys(FALSE, FALSE, FALSE, FALSE, TRUE)
keyUp == Keys(TRUE, FALSE, FALSE, FALSE, FALSE)
keyLeft == Keys(FALSE, FALSE, TRUE, FALSE, FALSE)
keyDownLeft == Keys(FALSE, TRUE, TRUE, FALSE, FALSE)
keyRight == Keys(FALSE, FALSE, FALSE, TRUE, FALSE)
keyDownRight == Keys(FALSE, TRUE, FALSE, TRUE, FALSE)
keyRightAction == Keys(FALSE, FALSE, FALSE, TRUE, TRUE)
keyDownRightAction == Keys(FALSE, TRUE, FALSE, TRUE, TRUE)

\* the inputs of the hunter's player and of the demon's player in a tick
HunterInputs == {noInput, keyAction, keyUp, keyRightAction}

DemonInputs == {noInput, keyAction, keyLeft, keyDownRightAction}

DtValues == 0..MaxDt

(***************************************************************************)
(* Math.random()                                                           *)
(***************************************************************************)
\* positions a random draw may give: inside the cabin, and two free places
SpawnPoints == {Vec(MAP_SIZE \div 2, MAP_SIZE \div 2), Vec(30, 30), Vec(29, 32)}

RandomAngles == {0, 5}

\* what the three draws of a deer respawn may give
DeerSpawnDraws ==
    {[pos |-> Vec(MAP_SIZE \div 2, MAP_SIZE \div 2), angle |-> 0, moving |-> FALSE],
     [pos |-> Vec(29, 32), angle |-> 0, moving |-> TRUE],
     [pos |-> Vec(30, 30), angle |-> 5, moving |-> FALSE]}

noRandom == [mushrooms |-> <<>>, deers |-> <<>>, deerAI |-> <<>>]

\* the tick runs the respawn loops
respawns(state, dt) ==
    /\ ~isGameOver(state.phase)
    /\ state.isNight
    /\ state.nightTimer + dt >= NIGHT_DURATION_SECONDS

\* what the deer map draws: nothing for a deer whose timer has not run out,
\* no angle for a deer that stops; the deer respawned in the call are mapped too
deerDraws(state, dt) ==
    LET n == Len(state.deers) + (IF respawns(state, dt) THEN RESPAWN_ATTEMPTS ELSE 0)
        timerOf(i) == IF i <= Len(state.deers) THEN state.deers[i].timer
                      ELSE DEER_SPAWN_TIMER
        stops(i) == i <= Len(state.deers) /\ state.deers[i].moving
        draws(i) == IF isGameOver(state.phase) \/ timerOf(i) - dt * FPS > 0
                    THEN {[timer |-> 0, angle |-> 0]}
                    ELSE IF stops(i)
                    THEN [timer : 0..(DEER_TIMER_SPREAD - 1), angle : {0}]
                    ELSE [timer : 0..(DEER_TIMER_SPREAD - 1), angle : RandomAngles]
    IN  {f \in [1..n -> [timer : 0..(DEER_TIMER_SPREAD - 1),
                         angle : RandomAngles \cup {0}]] :
            \A i \in 1..n : f[i] \in draws(i)}

\* the draws Math.random() gives during the call; a respawn loop that has
\* nothing to fill draws nothing
Random(state, dt) ==
    {[mushrooms |-> m, deers |-> d, deerAI |-> a] :
        m \in IF respawns(state, dt) /\ Len(state.mushrooms) < MUSHROOM_TARGET
              THEN [1..RESPAWN_ATTEMPTS -> SpawnPoints] ELSE {<<>>},
        d \in IF respawns(state, dt) /\ Len(state.deers) < DEER_TARGET
              THEN [1..RESPAWN_ATTEMPTS -> DeerSpawnDraws]
              ELSE {<<>>},
        a \in deerDraws(state, dt)}

(***************************************************************************)
(* createInitialState and startGame                                        *)
(***************************************************************************)
center == Vec(MAP_SIZE \div 2, MAP_SIZE \div 2)

cabin == [type |-> "CABIN", pos |-> center, size |-> CABIN_SIZE]

trees == <<[type |-> "TREE", pos |-> Vec(14, 32), size |-> TREE_SIZE],
           [type |-> "TREE", pos |-> Vec(33, 26), size |-> TREE_SIZE]>>

createInitialState(deers, mushrooms) ==
    [phase |-> "MENU",
     timeOfDay |-> 0,
     isNight |-> FALSE,
     nightTimer |-> 0,
     hunter |-> [pos |-> Vec(center.x, center.y + HUNTER_START_OFFSET),
                 size |-> HUNTER_SIZE, angle |-> 0, cooldown |-> 0,
                 inCabin |-> FALSE, enterTimer |-> 0],
     demon |-> [pos |-> Vec(5, 5), size |-> DEMON_SIZE, angle |-> 0,
                isRevealed |-> FALSE, stunTimer |-> 0,
                trackingActiveTime |-> 0, canTrack |-> FALSE],
     deers |-> deers,
     trees |-> trees,
     mushrooms |-> mushrooms,
     bullets |-> <<>>,
     cabin |-> cabin,
     messages |-> <<[text |-> "WELCOME", timeLeft |-> 3]>>]

startGame(newState, spawnPos) ==
    [newState EXCEPT !.demon.pos = spawnPos, !.phase = "PLAYING"]

DEMON_SPAWN_MIN_DIST == 10

\* the places the spawn loop of startGame can choose
DemonSpawns ==
    {p \in {Vec(31, 32), Vec(28, 25)} :
        /\ Dist2(p, createInitialState(<<>>, <<>>).hunter.pos)
              > DEMON_SPAWN_MIN_DIST * DEMON_SPAWN_MIN_DIST
        /\ ~checkCollision(p, DEMON_SIZE, trees \o <<cabin>>)}

InitialDeers ==
    {<<[id |-> 1, pos |-> Vec(26, 36), size |-> DEER_SIZE, angle |-> 0,
        moving |-> FALSE, timer |-> 3]>>}

InitialMushrooms == {<<[pos |-> Vec(31, 33)], [pos |-> Vec(33, 33)], [pos |-> Vec(27, 27)]>>}

StartStates ==
    {startGame(createInitialState(d, m), p) :
        d \in InitialDeers, m \in InitialMushrooms, p \in DemonSpawns}

(***************************************************************************)
(* Matches in progress.  A script is a sequence of ticks of the loop; the   *)
(* state after a script is a state the program reaches from a start state. *)
(***************************************************************************)
step(h, d, dt) == [hunterInput |-> h, demonInput |-> d, dt |-> dt]

\* the draws of a scripted tick
scriptRandom(state, dt) ==
    [mushrooms |-> IF respawns(state, dt)
                   THEN [i \in 1..RESPAWN_ATTEMPTS |-> Vec(30, 30)] ELSE <<>>,
     deers |-> IF respawns(state, dt)
               THEN [i \in 1..RESPAWN_ATTEMPTS |->
                        [pos |-> Vec(29, 32), angle |-> 0, moving |-> FALSE]]
               ELSE <<>>,
     deerAI |-> [i \in 1..(Len(state.deers) + RESPAWN_ATTEMPTS) |->
                   [timer |-> 0, angle |-> 0]]]

RECURSIVE replay(_, _)
replay(state, script) ==
    IF script = <<>> THEN state
    ELSE LET t == Head(script)
         IN  replay(updateGame(state, t.hunterInput, t.demonInput, t.dt,
                               scriptRandom(state, t.dt)),
                    Tail(script))

\* the hunter stays in the open until dusk, the demon comes closer
duskInTheOpen == <<step(noInput, keyLeft, 2), step(noInput, noInput, 2)>>
\* the hunter walks to the cabin door, the demon comes closer
duskAtTheDoor == <<step(keyUp, keyDownLeft, 2), step(noInput, keyLeft, 2)>>
nightInTheOpen == duskInTheOpen \o <<step(noInput, noInput, 1)>>
nightAtTheDoor == duskAtTheDoor \o <<step(noInput, noInput, 1)>>
sheltered == duskAtTheDoor \o <<step(noInput, noInput, 2)>>

Scripts ==
    {<<>>,
     \* a shot is on its way to the demon
     <<step(keyAction, keyLeft, 1)>>,
     \* the shot has killed the demon
     <<step(keyAction, keyLeft, 1), step(noInput, noInput, 1)>>,
     duskInTheOpen,
     duskAtTheDoor,
     nightInTheOpen,
     nightAtTheDoor,
     sheltered,
     \* the demon stands next to the sheltered hunter, dawn is near
     sheltered \o <<step(noInput, keyLeft, 2)>>,
     sheltered \o <<step(noInput, keyLeft, 2), step(noInput, noInput, 1)>>,
     \* the hunter has stunned the demon at nightfall
     duskInTheOpen \o <<step(keyAction, noInput, 1)>>,
     duskInTheOpen \o <<step(keyAction, noInput, 1), step(noInput, noInput, 2)>>,
     \* the demon is tracking
     nightInTheOpen \o <<step(noInput, keyAction, 1)>>,
     \* a shot at dusk has brought timeOfDay to 1.0, it is still day
     duskInTheOpen \o <<step(keyAction, noInput, 0)>>,
     \* the demon is one step away from the sheltered hunter
     <<step(keyUp, keyDownLeft, 2), step(noInput, noInput, 2),
       step(noInput, noInput, 2)>>,
     \* the demon stands on the sheltered hunter's position
     <<step(keyUp, keyDownLeft, 2), step(noInput, noInput, 2),
       step(noInput, noInput, 2), step(noInput, keyLeft, 2)>>,
     \* the demon has eaten a mushroom and dusk has come
     <<step(noInput, keyAction, 0)>> \o duskInTheOpen,
     \* the demon walks along the edge of the map, and into its corner
     <<step(noInput, keyRight, 2), step(noInput, keyDownRight, 2)>>,
     <<step(noInput, keyRight, 2), step(noInput, keyDownRight, 2),
       step(noInput, keyDownRight, 2)>>,
     \* the demon has caught the hunter
     nightInTheOpen \o <<step(noInput, keyLeft, 2)>>,
     \* the demon stands between two mushrooms, nearer to the second of the list
     <<step(noInput, keyRight, 1)>>,
     \* the tracking window is open, dawn is near
     nightInTheOpen \o <<step(noInput, keyAction, 1), step(noInput, noInput, 2)>>,
     \* the demon has been stunned late in the night
     nightInTheOpen \o <<step(noInput, noInput, 2), step(keyAction, noInput, 1)>>,
     \* the hunter has reached the door late in the night, dawn is near
     nightInTheOpen \o <<step(noInput, noInput, 1), step(keyUp, noInput, 1),
                         step(keyUp, noInput, 1)>>,
     \* the second day, after the respawn
     <<step(noInput, keyAction, 0)>> \o nightInTheOpen
         \o <<step(noInput, noInput, 2), step(noInput, noInput, 2)>>}

MatchStates == {replay(s, script) : s \in StartStates, script \in Scripts}

(***************************************************************************)
(* Online play: the App of the host and the App of the client              *)
(***************************************************************************)
null == [null |-> TRUE]

noCall == [made |-> FALSE]

noPacket == [made |-> FALSE]

ConnIds == 1..MaxConns

\* a side of a connection: not created, connecting, open, closed with the
\* 'close' event still to be emitted, closed
noConns ==
    [k \in ConnIds |-> [client |-> "NONE", host |-> "NONE",
                        toClient |-> <<>>, toHost |-> <<>>, started |-> FALSE]]

\* the App after initializeHost and its peer's 'open'
hostInit ==
    [myRole |-> "HUNTER", opponentMode |-> "WAITING", connRef |-> 0,
     gameStartedRef |-> FALSE, remoteInputRef |-> noInput, latency |-> null]

\* the App of the client when it is mounted
clientInit ==
    [gameState |-> createInitialState(<<>>, <<>>), targetGameStateRef |-> null,
     gameStartedRef |-> FALSE, myRole |-> "HUNTER", gameMode |-> "SINGLE_PLAYER",
     peerRef |-> 0, connRef |-> 0, latency |-> null]

otherRole(role) == IF role = "HUNTER" THEN "DEMON" ELSE "HUNTER"

hasRoom(queue) == Len(queue) < MaxInFlight

\* lerp on whole pixels; t is in thousandths
lerp(start, end, t) == start + Round((end - start) * t, 1000)

LERP_SNAP == 8

\* a lerpVector that never snaps
lerpVectorSmooth(start, end, t) ==
    Vec(lerp(start.x, end.x, t), lerp(start.y, end.y, t))

lerpVector(start, end, t) ==
    IF Abs(start.x - end.x) > LERP_SNAP \/ Abs(start.y - end.y) > LERP_SNAP THEN end
    ELSE Vec(lerp(start.x, end.x, t), lerp(start.y, end.y, t))

\* an interpolation that keeps the fields of the current state
interpolateFromCurrent(current, target, t) ==
    [current EXCEPT
        !.hunter.pos = lerpVector(@, target.hunter.pos, t),
        !.demon.pos = lerpVector(@, target.demon.pos, t)]

\* Math.min(1, 15.0 * dt) in thousandths, dt in milliseconds
lerpT(dt) == Min(1000, 15 * dt)

interpolateGameState(current, target, t) ==
    LET deerOf(targetDeer) ==
            LET found == {i \in 1..Len(current.deers) : current.deers[i].id = targetDeer.id}
                first == CHOOSE i \in found : \A j \in found : i <= j
            IN  IF found = {} THEN targetDeer
                ELSE [targetDeer EXCEPT !.pos = lerpVector(current.deers[first].pos, @, t)]
        bulletOf(index) ==
            IF index > Len(current.bullets) THEN target.bullets[index]
            ELSE [target.bullets[index] EXCEPT
                     !.pos = lerpVector(current.bullets[index].pos, @, t)]
    IN  [target EXCEPT
            !.hunter.pos = lerpVector(current.hunter.pos, @, t),
            !.demon.pos = lerpVector(current.demon.pos, @, t),
            !.deers = [i \in 1..Len(target.deers) |-> deerOf(target.deers[i])],
            !.bullets = [i \in 1..Len(target.bullets) |-> bulletOf(i)]]

\* the interpolation factor of a frame of 1/60 s: Math.min(1, 15.0 * dt)
LerpT == {250}

\* Math.round of a length given in units of 1/unit of a pixel: the nearest
\* whole pixel, a half going up
MathRound(n, unit) == ((2 * n + unit) \div (2 * unit)) * unit

\* a conversion that cuts the fraction off
roundEntityFloor(e, unit) ==
    [e EXCEPT !.pos = Vec((@.x \div unit) * unit, (@.y \div unit) * unit)]

roundEntity(e, unit) ==
    [e EXCEPT !.pos = Vec(MathRound(@.x, unit), MathRound(@.y, unit))]

\* loop, dynamicState: hunter, demon, deers and bullets with rounded positions
dynamicState(nextState, unit) ==
    [nextState EXCEPT
        !.hunter = roundEntity(@, unit),
        !.demon = roundEntity(@, unit),
        !.deers = [i \in 1..Len(nextState.deers) |->
                      roundEntity(nextState.deers[i], unit)],
        !.bullets = [i \in 1..Len(nextState.bullets) |->
                        [nextState.bullets[i] EXCEPT
                            !.pos = Vec(MathRound(@.x, unit), MathRound(@.y, unit))]]]

\* the state of a STATE_UPDATE: the rounded state without trees and cabin
optimizedState(nextState) ==
    [f \in (DOMAIN nextState) \ {"trees", "cabin"} |-> nextState[f]]

\* the STATE_UPDATE of a state whose lengths are in units of 1/unit of a pixel
stateUpdate(nextState, unit) ==
    [type |-> "STATE_UPDATE", state |-> optimizedState(dynamicState(nextState, unit))]

\* fullStateUpdate
mergeUpdate(baseState, state) ==
    LET has(f) == f \in DOMAIN state
        spread == [f \in (DOMAIN baseState) \cup (DOMAIN state) |->
                      IF has(f) THEN state[f] ELSE baseState[f]]
    IN  [spread EXCEPT
            !.trees = IF has("trees") /\ Len(spread.trees) > 0
                      THEN spread.trees ELSE baseState.trees,
            !.cabin = IF has("cabin") THEN spread.cabin ELSE baseState.cabin]

\* a handler that merges whenever there is a target
onStateUpdateUnguarded(app, data) ==
    IF app.targetGameStateRef = null THEN app
    ELSE [app EXCEPT !.targetGameStateRef = mergeUpdate(@, data.state)]

\* joinGame conn.on('data'), STATE_UPDATE
onStateUpdate(app, data) ==
    IF ~app.gameStartedRef THEN app
    ELSE IF app.targetGameStateRef = null THEN app
    ELSE [app EXCEPT !.targetGameStateRef = mergeUpdate(@, data.state)]

\* a handler whose START_GAME leaves the role of the lobby in place
clientOnDataKeepsRole(app, data) ==
    CASE data.type = "LOBBY_UPDATE" ->
            [app EXCEPT !.myRole = otherRole(data.hostRole)]
      [] data.type = "START_GAME" ->
            [app EXCEPT !.gameStartedRef = TRUE,
                        !.gameState = data.initialState,
                        !.targetGameStateRef = data.initialState]
      [] OTHER -> app

\* joinGame conn.on('data'): the App after the packet
clientOnData(app, data) ==
    CASE data.type = "LOBBY_UPDATE" ->
            [app EXCEPT !.myRole = otherRole(data.hostRole)]
      [] data.type = "START_GAME" ->
            [app EXCEPT !.gameStartedRef = TRUE,
                        !.myRole = data.clientRole,
                        !.gameState = data.initialState,
                        !.targetGameStateRef = data.initialState]
      [] data.type = "STATE_UPDATE" -> onStateUpdate(app, data)
      [] data.type = "PONG" -> [app EXCEPT !.latency = [ms |-> ticks - data.timestamp]]
      [] OTHER -> app

\* the smallest connection that has not been created
nextConn == CHOOSE k \in ConnIds :
                conns[k].client = "NONE" /\ \A j \in 1..(k - 1) : conns[j].client # "NONE"

\* a side of a connection after the connection is closed
closedSide(side) == IF side = "OPEN" THEN "CLOSING"
                    ELSE IF side = "NEW" THEN "CLOSED" ELSE side

closed(conn) ==
    [conn EXCEPT !.client = closedSide(@), !.host = closedSide(@),
                 !.toClient = <<>>, !.toHost = <<>>]

\* MainMenu onJoinGame, joinGame and the 'open' of its peer: the previous
\* peer is destroyed, a connection to the host is asked for
JoinGame ==
    /\ clientApp.gameState.phase = "MENU"
    /\ \E k \in ConnIds : conns[k].client = "NONE"
    /\ conns' = [k \in ConnIds |->
                    IF k = nextConn THEN [conns[k] EXCEPT !.client = "NEW", !.host = "NEW"]
                    ELSE IF k = clientApp.peerRef THEN closed(conns[k])
                    ELSE conns[k]]
    /\ clientApp' = [clientApp EXCEPT !.peerRef = nextConn]
    /\ UNCHANGED <<simVars, hostApp, delivered, received>>

\* joinGame conn.on('open')
ClientConnOpen(k) ==
    /\ conns[k].client = "NEW"
    /\ k = clientApp.peerRef
    /\ conns' = [conns EXCEPT ![k].client = "OPEN"]
    /\ clientApp' = [clientApp EXCEPT !.gameMode = "ONLINE_CLIENT",
                                      !.gameStartedRef = FALSE,
                                      !.myRole = "DEMON",
                                      !.gameState.phase = "LOBBY",
                                      !.connRef = k]
    /\ UNCHANGED <<simVars, hostApp, delivered, received>>

\* initializeHost peer.on('connection') conn.on('open')
HostConnOpen(k) ==
    /\ conns[k].host = "NEW"
    /\ hasRoom(conns[k].toClient)
    /\ conns' = [conns EXCEPT ![k].host = "OPEN",
                              ![k].toClient = Append(@, [type |-> "LOBBY_UPDATE",
                                                         hostRole |-> hostApp.myRole])]
    /\ hostApp' = [hostApp EXCEPT !.opponentMode = "CONNECTED", !.connRef = k]
    /\ UNCHANGED <<simVars, clientApp, delivered, received>>

\* joinGame conn.on('data')
ClientData(k) ==
    /\ conns[k].client = "OPEN"
    /\ conns[k].toClient # <<>>
    /\ LET data == Head(conns[k].toClient)
       IN  \E app \in {clientOnData(clientApp, data)} :
               /\ clientApp' = app
               /\ data.type = "PING" => hasRoom(conns[k].toHost)
               /\ conns' = [conns EXCEPT ![k].toClient = Tail(@),
                                         ![k].started = @ \/ data.type = "START_GAME",
                                         ![k].toHost =
                                            IF data.type = "PING"
                                            THEN Append(@, [type |-> "PONG",
                                                            timestamp |-> data.timestamp])
                                            ELSE @]
               /\ delivered' = [made |-> TRUE, conn |-> k, data |-> data,
                                started |-> conns[k].started,
                                before |-> clientApp, after |-> app]
    /\ UNCHANGED <<simVars, hostApp, received>>

\* a handler that keeps the input it has once it has one with a key down
hostOnDataKeepsFirst(app, data) ==
    IF data.type = "INPUT_UPDATE" /\ app.remoteInputRef = noInput
    THEN [app EXCEPT !.remoteInputRef = data.input]
    ELSE app

\* initializeHost conn.on('data'): the App after the packet
hostOnData(app, data) ==
    IF data.type = "INPUT_UPDATE"
    THEN [app EXCEPT !.remoteInputRef = data.input]
    ELSE IF data.type = "PONG"
    THEN [app EXCEPT !.latency = [ms |-> ticks - data.timestamp]]
    ELSE app

\* initializeHost conn.on('data')
HostData(k) ==
    /\ conns[k].host = "OPEN"
    /\ conns[k].toHost # <<>>
    /\ hostApp' = hostOnData(hostApp, Head(conns[k].toHost))
    /\ conns' = [conns EXCEPT ![k].toHost = Tail(@)]
    /\ received' = [made |-> TRUE, conn |-> k, data |-> Head(conns[k].toHost),
                    ticks |-> ticks]
    /\ UNCHANGED <<simVars, clientApp, delivered>>

\* startGame on the host: START_GAME goes out on connRef
HostStartGame(spawnPos) ==
    /\ gameState.phase = "LOBBY"
    /\ hostApp.connRef # 0
    /\ hostApp.opponentMode = "CONNECTED"
    /\ LET k == hostApp.connRef
           newState == startGame(createInitialState(CHOOSE d \in InitialDeers : TRUE,
                                                    CHOOSE m \in InitialMushrooms : TRUE),
                                 spawnPos)
           packet == [type |-> "START_GAME", clientRole |-> otherRole(hostApp.myRole),
                      initialState |-> newState]
       IN  /\ hasRoom(conns[k].toClient)
           /\ conns' = IF conns[k].host = "OPEN"
                       THEN [conns EXCEPT ![k].toClient = Append(@, packet)]
                       ELSE conns
           /\ gameState' = newState
    /\ hostApp' = [hostApp EXCEPT !.gameStartedRef = TRUE]
    /\ UNCHANGED <<call, ticks, clientApp, delivered, received>>

\* loop on the host: the tick, and the STATE_UPDATE when the network tick is due
\* a send whose exception leaves the updater: the tick is lost
afterSendUncaught(prev, nextState, threw) == IF threw THEN prev ELSE nextState

\* what the updater returns after the broadcast: try { send } catch(e) {},
\* then return nextState
afterSend(prev, nextState, threw) == nextState

\* one call of the updater of the host's loop; threw: connRef.current.send
\* throws.  call.sent tells what became of the broadcast, call.afterThrow
\* that the send of the tick before threw.
hostFrameSend(localInput, dt, threw) ==
    /\ gameState.phase = "PLAYING"
    /\ LET hunterIn == IF hostApp.myRole = "HUNTER" THEN localInput
                       ELSE hostApp.remoteInputRef
           demonIn == IF hostApp.myRole = "HUNTER" THEN hostApp.remoteInputRef
                      ELSE localInput
           k == hostApp.connRef
           due == dt > 0 /\ k # 0
           sends == due /\ conns[k].host = "OPEN"
       IN  \E rnd \in Random(gameState, dt) :
             \E c \in {updateGameCall(gameState, hunterIn, demonIn, dt, rnd)} :
                 /\ due => hasRoom(conns[k].toClient)
                 /\ threw => sends
                 /\ gameState' = afterSend(gameState, c.s, threw)
                 /\ call' = [made |-> TRUE, state |-> gameState,
                             hunterInput |-> hunterIn, demonInput |-> demonIn,
                             dt |-> dt, input |-> c.inp, events |-> c.ev,
                             sent |-> IF ~sends THEN "NONE"
                                      ELSE IF threw THEN "THREW" ELSE "SENT",
                             afterThrow |-> call.made /\ call.sent = "THREW"]
                 /\ conns' = IF sends /\ ~threw
                             THEN [conns EXCEPT ![k].toClient =
                                      Append(@, stateUpdate(c.s, 1))]
                             ELSE conns
    /\ ticks' = ticks + 1
    /\ UNCHANGED <<hostApp, clientApp, delivered, received>>

\* a call of the updater whose send does not throw
hostFrame(localInput, dt) == hostFrameSend(localInput, dt, FALSE)

HostFrame(localInput, dt) == ticks < MaxFrames /\ hostFrame(localInput, dt)

\* loop on the client: the input goes out, the rendered state follows the target
ClientFrame(myInput, sends, t) ==
    /\ clientApp.gameMode = "ONLINE_CLIENT"
    /\ LET k == clientApp.connRef
           target == clientApp.targetGameStateRef
           prev == clientApp.gameState
       IN  /\ conns' = IF sends /\ k # 0 /\ conns[k].client = "OPEN"
                          /\ hasRoom(conns[k].toHost)
                       THEN [conns EXCEPT ![k].toHost =
                                Append(@, [type |-> "INPUT_UPDATE", input |-> myInput])]
                       ELSE conns
           /\ clientApp' =
                 IF clientApp.gameStartedRef /\ target # null
                 THEN [clientApp EXCEPT !.gameState =
                          IF target.phase # prev.phase THEN target
                          ELSE interpolateGameState(prev, target, t)]
                 ELSE clientApp
    /\ UNCHANGED <<simVars, hostApp, delivered, received>>

\* the connection is lost, or one of the two Apps closes it
ConnDrop(k) ==
    /\ conns[k].client \in {"NEW", "OPEN"} \/ conns[k].host \in {"NEW", "OPEN"}
    /\ conns' = [conns EXCEPT ![k] = closed(@)]
    /\ UNCHANGED <<simVars, hostApp, clientApp, delivered, received>>

\* Lobby onBack on the client
ClientBack ==
    /\ clientApp.gameState.phase = "LOBBY"
    /\ clientApp.peerRef # 0
    /\ conns' = [conns EXCEPT ![clientApp.peerRef] = closed(@)]
    /\ clientApp' = [clientApp EXCEPT !.gameMode = "SINGLE_PLAYER",
                                      !.gameState.phase = "MENU"]
    /\ UNCHANGED <<simVars, hostApp, delivered, received>>

\* joinGame conn.on('close')
ClientConnClose(k) ==
    /\ conns[k].client = "CLOSING"
    /\ conns' = [conns EXCEPT ![k].client = "CLOSED"]
    /\ clientApp' = [clientApp EXCEPT !.gameStartedRef = FALSE,
                                      !.gameState.phase = "MENU"]
    /\ UNCHANGED <<simVars, hostApp, delivered, received>>

\* initializeHost conn.on('close')
HostConnClose(k) ==
    /\ conns[k].host = "CLOSING"
    /\ conns' = [conns EXCEPT ![k].host = "CLOSED"]
    /\ hostApp' = IF k = hostApp.connRef
                  THEN [hostApp EXCEPT !.opponentMode = "WAITING",
                                       !.connRef = 0,
                                       !.gameStartedRef = FALSE]
                  ELSE hostApp
    /\ UNCHANGED <<simVars, clientApp, delivered, received>>

(***************************************************************************)
(* The calls of updateGame                                                 *)
(***************************************************************************)
Init ==
    /\ gameState \in MatchStates
    /\ call = noCall
    /\ ticks = 0
    /\ hostApp = hostInit
    /\ clientApp = clientInit
    /\ conns = noConns
    /\ delivered = noPacket
    /\ received = noPacket

\* one call updateGame(gameState, hunterInput, demonInput, dt), whose
\* result becomes the game state
Tick(hunterInput, demonInput, dt) ==
    /\ ticks < MaxTicks
    /\ \E rnd \in Random(gameState, dt) :
          \E c \in {updateGameCall(gameState, hunterInput, demonInput, dt, rnd)} :
              /\ gameState' = c.s
              /\ call' = [made |-> TRUE, state |-> gameState,
                          hunterInput |-> hunterInput, demonInput |-> demonInput,
                          dt |-> dt, input |-> c.inp, events |-> c.ev]
    /\ ticks' = ticks + 1
    /\ UNCHANGED netVars

Next ==
    \E hunterInput \in HunterInputs, demonInput \in DemonInputs, dt \in DtValues :
        Tick(hunterInput, demonInput, dt)

Spec == Init /\ [][Next]_vars

(***************************************************************************)
(* A host and a client                                                     *)
(***************************************************************************)
\* the keys of the host's player and of the client's player
HostKeys == {keyAction}

ClientKeys == {keyLeft}

\* the place the spawn loop of the host's startGame chooses
HostSpawns == {Vec(31, 32)} \cap DemonSpawns

InitNet ==
    /\ gameState = [createInitialState(CHOOSE d \in InitialDeers : TRUE,
                                       CHOOSE m \in InitialMushrooms : TRUE)
                       EXCEPT !.phase = "LOBBY"]
    /\ call = noCall
    /\ ticks = 0
    /\ hostApp = hostInit
    /\ clientApp = clientInit
    /\ conns = noConns
    /\ delivered = noPacket
    /\ received = noPacket

NextNet ==
    \/ JoinGame
    \/ \E k \in ConnIds : ClientConnOpen(k)
    \/ \E k \in ConnIds : HostConnOpen(k)
    \/ \E k \in ConnIds : ClientData(k)
    \/ \E k \in ConnIds : HostData(k)
    \/ \E spawnPos \in HostSpawns : HostStartGame(spawnPos)
    \/ \E localInput \in HostKeys : HostFrame(localInput, 1)
    \/ \E myInput \in ClientKeys, sends \in BOOLEAN, t \in LerpT :
          ClientFrame(myInput, sends, t)
    \/ \E k \in ConnIds : ConnDrop(k)
    \/ ClientBack
    \/ \E k \in ConnIds : ClientConnClose(k)
    \/ \E k \in ConnIds : HostConnClose(k)

SpecNet == InitNet /\ [][NextNet]_vars

(***************************************************************************)
(* The STATE_UPDATE of a state with fractional positions.  Lengths are in   *)
(* units of 1/SubPixel of a pixel.                                         *)
(***************************************************************************)
\* a position of whole pixels moved by (ox, oy) / SubPixel
finePos(pos, ox, oy) == Vec(pos.x * SubPixel + ox, pos.y * SubPixel + oy)

\* a state of the host between two whole-pixel states
fineState(state, ox, oy) ==
    [state EXCEPT
        !.hunter.pos = finePos(@, ox, oy),
        !.demon.pos = finePos(@, oy, ox),
        !.deers = [i \in 1..Len(state.deers) |->
                      [state.deers[i] EXCEPT !.pos = finePos(@, ox, ox)]],
        !.bullets = [i \in 1..Len(state.bullets) |->
                        [state.bullets[i] EXCEPT !.pos = finePos(@, oy, oy)]],
        !.mushrooms = [i \in 1..Len(state.mushrooms) |->
                          [state.mushrooms[i] EXCEPT !.pos = finePos(@, ox, oy)]],
        !.trees = [i \in 1..Len(state.trees) |->
                      [state.trees[i] EXCEPT !.pos = finePos(@, 0, 0)]],
        !.cabin.pos = finePos(@, 0, 0)]

WireStates ==
    {fineState(s, ox, oy) : s \in MatchStates, ox \in 0..(SubPixel - 1),
                            oy \in 0..(SubPixel - 1)}

\* the targets a client can hold: the state of START_GAME, or the target of
\* an earlier match on another map
WireTargets ==
    LET started == {fineState(s, 0, 0) : s \in StartStates}
    IN  started \cup {[s EXCEPT !.trees = SubSeq(@, 1, 1), !.cabin.size = @ + 1] :
                         s \in started}

\* a match is on: the connection is open and START_GAME has been handled
InitWire ==
    /\ gameState \in WireStates
    /\ call = noCall
    /\ ticks = 0
    /\ hostApp = [hostInit EXCEPT !.opponentMode = "CONNECTED", !.connRef = 1,
                                  !.gameStartedRef = TRUE]
    /\ \E target \in WireTargets :
          clientApp = [clientInit EXCEPT !.gameState = target,
                                         !.targetGameStateRef = target,
                                         !.gameStartedRef = TRUE,
                                         !.myRole = "DEMON",
                                         !.gameMode = "ONLINE_CLIENT",
                                         !.peerRef = 1, !.connRef = 1]
    /\ conns = [noConns EXCEPT ![1] = [client |-> "OPEN", host |-> "OPEN",
                                       toClient |-> <<>>, toHost |-> <<>>,
                                       started |-> TRUE]]
    /\ delivered = noPacket
    /\ received = noPacket

\* loop on the host, the broadcast of the state it has computed
WireBroadcast ==
    /\ hostApp.connRef # 0
    /\ conns[hostApp.connRef].host = "OPEN"
    /\ ~delivered.made
    /\ hasRoom(conns[hostApp.connRef].toClient)
    /\ conns' = [conns EXCEPT ![hostApp.connRef].toClient =
                    Append(@, stateUpdate(gameState, SubPixel))]
    /\ UNCHANGED <<simVars, hostApp, clientApp, delivered, received>>

NextWire ==
    \/ WireBroadcast
    \/ \E k \in ConnIds : ClientData(k)

SpecWire == InitWire /\ [][NextWire]_vars

(***************************************************************************)
(* A match between the host and its client: the client sends its input,    *)
(* the host ticks, the connection can be lost.                             *)
(***************************************************************************)
RemoteKeys == {keyLeft, keyAction}

InitHost ==
    /\ gameState \in StartStates
    /\ call = noCall
    /\ ticks = 0
    /\ \E role \in {"HUNTER", "DEMON"} :
          /\ hostApp = [hostInit EXCEPT !.myRole = role,
                                        !.opponentMode = "CONNECTED",
                                        !.connRef = 1,
                                        !.gameStartedRef = TRUE]
          /\ clientApp = [clientInit EXCEPT !.gameState = gameState,
                                            !.targetGameStateRef = gameState,
                                            !.gameStartedRef = TRUE,
                                            !.myRole = otherRole(role),
                                            !.gameMode = "ONLINE_CLIENT",
                                            !.peerRef = 1, !.connRef = 1]
    /\ conns = [noConns EXCEPT ![1] = [client |-> "OPEN", host |-> "OPEN",
                                       toClient |-> <<>>, toHost |-> <<>>,
                                       started |-> TRUE]]
    /\ delivered = noPacket
    /\ received = noPacket

\* another peer connects to the host's id: peer.connect on its side
PeerConnect ==
    /\ \E k \in ConnIds : conns[k].client = "NONE"
    /\ conns' = [conns EXCEPT ![nextConn].client = "OTHER", ![nextConn].host = "NEW"]
    /\ UNCHANGED <<simVars, hostApp, clientApp, delivered, received>>

\* the other peer sends an INPUT_UPDATE on its connection
PeerInput(k, input) ==
    /\ conns[k].client = "OTHER"
    /\ conns[k].host = "OPEN"
    /\ hasRoom(conns[k].toHost)
    /\ conns' = [conns EXCEPT ![k].toHost =
                    Append(@, [type |-> "INPUT_UPDATE", input |-> input])]
    /\ UNCHANGED <<simVars, hostApp, clientApp, delivered, received>>

\* the other peer takes a packet of the host from its connection
PeerData(k) ==
    /\ conns[k].client = "OTHER"
    /\ conns[k].toClient # <<>>
    /\ conns' = [conns EXCEPT ![k].toClient = Tail(@)]
    /\ UNCHANGED <<simVars, hostApp, clientApp, delivered, received>>

PeerKeys == {keyRight}

\* loop on the host, driven by the worker
HostTick(localInput, dt) == ticks < MaxHostTicks /\ hostFrame(localInput, dt)

NextHost ==
    \/ \E myInput \in RemoteKeys, sends \in BOOLEAN, t \in LerpT :
          ClientFrame(myInput, sends, t)
    \/ \E k \in ConnIds : HostData(k)
    \/ \E localInput \in HostKeys : HostTick(localInput, 1)
    \/ \E k \in ConnIds : ClientData(k)
    \/ \E k \in ConnIds : ConnDrop(k)
    \/ \E k \in ConnIds : ClientConnClose(k)
    \/ \E k \in ConnIds : HostConnClose(k)

SpecHost == InitHost /\ [][NextHost]_vars

\* the match, and another peer that connects to the host
NextPeers ==
    \/ \E myInput \in RemoteKeys, sends \in BOOLEAN, t \in LerpT :
          ClientFrame(myInput, sends, t)
    \/ \E k \in ConnIds : HostData(k)
    \/ \E localInput \in HostKeys : HostTick(localInput, 1)
    \/ \E k \in ConnIds : ClientData(k)
    \/ PeerConnect
    \/ \E k \in ConnIds : HostConnOpen(k)
    \/ \E k \in ConnIds, input \in PeerKeys : PeerInput(k, input)
    \/ \E k \in ConnIds : PeerData(k)

SpecPeers == InitHost /\ [][NextPeers]_vars

(***************************************************************************)
(* The movement of the two combatants: a match in progress, every          *)
(* combination of the four direction keys, one combatant walking at a time.*)
(***************************************************************************)
\* the demon walks along the edge of the map
alongTheEdge == <<step(noInput, keyRight, 2), step(noInput, keyDownRight, 2)>>

\* the hunter walks up to the wall of the cabin
atTheCabinWall == <<step(keyUp, noInput, 2), step(keyUp, noInput, 1)>>

MoveScripts == {<<>>, atTheCabinWall, nightInTheOpen, alongTheEdge}

MoveStates == {replay(s, script) : s \in StartStates, script \in MoveScripts}

MoveKeys == {Keys(u, d, l, r, FALSE) : u \in BOOLEAN, d \in BOOLEAN,
                                       l \in BOOLEAN, r \in BOOLEAN}

MovePairs == {<<k, noInput>> : k \in MoveKeys} \cup {<<noInput, k>> : k \in MoveKeys}

InitMove ==
    /\ gameState \in MoveStates
    /\ call = noCall
    /\ ticks = 0
    /\ hostApp = hostInit
    /\ clientApp = clientInit
    /\ conns = noConns
    /\ delivered = noPacket
    /\ received = noPacket

NextMove ==
    \E p \in MovePairs, dt \in DtValues : Tick(p[1], p[2], dt)

SpecMove == InitMove /\ [][NextMove]_vars

(***************************************************************************)
(* The host of a match whose sends may throw.                              *)
(***************************************************************************)
SendTick(localInput, dt, threw) ==
    ticks < MaxHostTicks /\ hostFrameSend(localInput, dt, threw)

NextSend ==
    \/ \E localInput \in HostKeys, threw \in BOOLEAN : SendTick(localInput, 1, threw)
    \/ \E k \in ConnIds : HostData(k)
    \/ \E myInput \in RemoteKeys, sends \in BOOLEAN, t \in LerpT :
          ClientFrame(myInput, sends, t)
    \/ \E k \in ConnIds : ClientData(k)

SpecSend == InitHost /\ [][NextSend]_vars

(***************************************************************************)
(* updateGame called on a state of any phase.                              *)
(***************************************************************************)
InitPhase ==
    /\ gameState \in {[s EXCEPT !.phase = p] :
                        s \in StartStates \cup {replay(s0, nightInTheOpen) : s0 \in StartStates},
                        p \in GamePhase}
    /\ call = noCall
    /\ ticks = 0
    /\ hostApp = hostInit
    /\ clientApp = clientInit
    /\ conns = noConns
    /\ delivered = noPacket
    /\ received = noPacket

SpecPhase == InitPhase /\ [][Next]_vars

(***************************************************************************)
(* interpolateGameState on the states of a match: the client holds a       *)
(* current state and a target and runs frames of dt milliseconds.          *)
(***************************************************************************)
InitLerp ==
    /\ \E current \in MatchStates, target \in MatchStates :
          /\ gameState = target
          /\ clientApp = [clientInit EXCEPT !.gameState = current,
                                            !.targetGameStateRef = target,
                                            !.gameStartedRef = TRUE,
                                            !.gameMode = "ONLINE_CLIENT"]
    /\ call = noCall
    /\ ticks = 0
    /\ hostApp = hostInit
    /\ conns = noConns
    /\ delivered = noPacket
    /\ received = noPacket

Interpolate(dt) ==
    /\ ticks < MaxLerpFrames
    /\ clientApp' = [clientApp EXCEPT !.gameState =
                        interpolateGameState(@, clientApp.targetGameStateRef, lerpT(dt))]
    /\ call' = [made |-> TRUE, current |-> clientApp.gameState,
                target |-> clientApp.targetGameStateRef, dt |-> dt]
    /\ ticks' = ticks + 1
    /\ UNCHANGED <<gameState, hostApp, conns, delivered, received>>

SpecLerp == InitLerp /\ [][\E dt \in {0, 16, 66, 67} : Interpolate(dt)]_vars

(***************************************************************************)
(* The latency probe of two connected peers.  ticks is the clock.          *)
(***************************************************************************)
\* the interval of the host
HostPing ==
    LET k == hostApp.connRef
    IN  /\ ticks < MaxPings
        /\ hostApp.opponentMode = "CONNECTED"
        /\ k # 0 /\ conns[k].host = "OPEN"
        /\ hasRoom(conns[k].toClient)
        /\ conns' = [conns EXCEPT ![k].toClient =
                        Append(@, [type |-> "PING", timestamp |-> ticks])]
        /\ ticks' = ticks + 1
        /\ UNCHANGED <<gameState, call, hostApp, clientApp, delivered, received>>

\* the interval of the client
ClientPing ==
    LET k == clientApp.connRef
    IN  /\ ticks < MaxPings
        /\ clientApp.gameMode = "ONLINE_CLIENT"
        /\ k # 0 /\ conns[k].client = "OPEN"
        /\ hasRoom(conns[k].toHost)
        /\ conns' = [conns EXCEPT ![k].toHost =
                        Append(@, [type |-> "PING", timestamp |-> ticks])]
        /\ ticks' = ticks + 1
        /\ UNCHANGED <<gameState, call, hostApp, clientApp, delivered, received>>

SpecPing ==
    InitHost /\ [][\/ HostPing
                   \/ ClientPing
                   \/ \E k \in ConnIds : HostData(k)
                   \/ \E k \in ConnIds : ClientData(k)]_vars

(***************************************************************************)
(* The hunter at the cabin in the night, on a clock of 1/TimeUnit second:  *)
(* the hunter's movement and the cabin entry of a tick.  enterTimer counts *)
(* ticks of that clock.  No other stage of updateGame reads or writes      *)
(* enterTimer, and none moves the hunter.                                  *)
(***************************************************************************)
\* night has fallen, the hunter stands just outside the range of the cabin
InitCabin ==
    /\ gameState \in {replay(s, <<step(keyUp, noInput, 1), step(noInput, noInput, 2),
                                  step(noInput, noInput, 2)>>) : s \in StartStates}
    /\ call = noCall
    /\ ticks = 0
    /\ hostApp = hostInit
    /\ clientApp = clientInit
    /\ conns = noConns
    /\ delivered = noPacket
    /\ received = noPacket

HunterStage(hunterInput, dt) ==
    /\ ticks < MaxCabinTicks
    /\ gameState.phase = "PLAYING" /\ gameState.isNight
    /\ LET c0 == [s |-> gameState, inp |-> gameState, ev |-> <<>>]
       IN  gameState' = cabinEntryAt(hunterMovementAt(c0, hunterInput, dt, TimeUnit),
                                     dt, TimeUnit).s
    /\ ticks' = ticks + 1
    /\ UNCHANGED <<call, netVars>>

SpecCabin ==
    InitCabin /\ [][\E hunterInput \in {noInput, keyUp, keyDownLeft}, dt \in 0..TimeUnit :
                      HunterStage(hunterInput, dt)]_vars

(***************************************************************************)
(* Properties of updateGame, on the last call made                         *)
(***************************************************************************)
pre == call.state

played == call.made /\ pre.phase = "PLAYING"

said(text) == \E i \in 1..Len(call.events) : call.events[i] = text

count(text) == Cardinality({i \in 1..Len(call.events) : call.events[i] = text})

\* C1: a call on a state whose phase is GAME_OVER_HUNTER_WINS or
\* GAME_OVER_DEMON_WINS returns a state equal to its input in every field,
\* whatever the inputs and dt: the game-over phases are absorbing.
C1_GameOverAbsorbing ==
    (call.made /\ pre.phase \in {"GAME_OVER_HUNTER_WINS", "GAME_OVER_DEMON_WINS"})
        => gameState = pre

\* a call with dt > 0 and keys held on a match the demon has won
C1_Witness ==
    /\ call.made
    /\ pre.phase = "GAME_OVER_DEMON_WINS"
    /\ pre.messages # <<>>
    /\ call.dt > 0
    /\ call.hunterInput.action
    /\ call.demonInput.left

\* a projectile that was in flight before the call comes, inside the map and
\* clear of the obstacles, within demon.size + 5 of the demon
flyingBulletReachesDemon ==
    \E i \in 1..Len(pre.bullets) :
        LET b == pre.bullets[i]
            nextPos == Vec(b.pos.x + Round(b.velocity.x * call.dt * FPS, 1000),
                           b.pos.y + Round(b.velocity.y * call.dt * FPS, 1000))
        IN  /\ nextPos.x >= 0 /\ nextPos.x <= MAP_SIZE
            /\ nextPos.y >= 0 /\ nextPos.y <= MAP_SIZE
            /\ ~checkCollision(nextPos, BULLET_RADIUS, pre.trees \o <<pre.cabin>>)
            /\ Dist2(nextPos, gameState.demon.pos)
                  < (gameState.demon.size + HIT_MARGIN) * (gameState.demon.size + HIT_MARGIN)

demonHit == played /\ (flyingBulletReachesDemon \/ said("DEMON_STUNNED") \/ said("DEMON_KILLED"))

noBulletOnDemon ==
    \A i \in 1..Len(gameState.bullets) :
        Dist2(gameState.bullets[i].pos, gameState.demon.pos)
            >= (gameState.demon.size + HIT_MARGIN) * (gameState.demon.size + HIT_MARGIN)

\* C2: in a tick where a projectile hits the demon, the projectile is removed;
\* at night stunTimer is DEMON_STUN_DURATION after the tick and the hit sets
\* no game-over phase (the phase is GAME_OVER_DEMON_WINS only if the demon
\* caught the hunter in the tick); in day the phase is GAME_OVER_HUNTER_WINS
\* and demon.isRevealed is true.
C2_HitStunsAtNightKillsInDay ==
    demonHit =>
        /\ noBulletOnDemon
        /\ gameState.isNight =>
              /\ gameState.demon.stunTimer = DEMON_STUN_DURATION
              /\ gameState.phase # "GAME_OVER_HUNTER_WINS"
              /\ gameState.phase = "GAME_OVER_DEMON_WINS" => said("HUNTER_CAUGHT")
        /\ ~gameState.isNight =>
              /\ gameState.phase = "GAME_OVER_HUNTER_WINS"
              /\ gameState.demon.isRevealed

\* a shot fired at night has hit the demon in the tick
C2_Witness ==
    /\ demonHit
    /\ gameState.isNight
    /\ said("DEMON_STUNNED")
    /\ gameState.phase = "PLAYING"

\* C3: in a tick in which hunter.inCabin is true at the contact check, the
\* phase does not become GAME_OVER_DEMON_WINS, whatever the distance between
\* demon and hunter and whatever the demon's input.
C3_ShelteredHunterImmune ==
    (played /\ gameState.hunter.inCabin) => gameState.phase # "GAME_OVER_DEMON_WINS"

\* the demon, not stunned, stands on the sheltered hunter's position and acts
C3_Witness ==
    /\ played
    /\ gameState.hunter.inCabin
    /\ gameState.isNight
    /\ gameState.demon.stunTimer <= 0
    /\ gameState.demon.pos = gameState.hunter.pos
    /\ call.demonInput.action
    /\ call.dt > 0

\* C4: once inCabin is true during a night it is true after every later tick
\* of that night, whatever the hunter's input, and it is cleared exactly by
\* the tick in which the night flips to day.
C4_ShelterLastsTheNight ==
    (played /\ pre.hunter.inCabin) =>
        /\ pre.isNight
        /\ gameState.isNight => gameState.hunter.inCabin
        /\ ~gameState.isNight => ~gameState.hunter.inCabin

\* the night ends on a sheltered hunter
C4_Witness ==
    /\ played
    /\ pre.hunter.inCabin
    /\ pre.isNight
    /\ ~gameState.isNight
    /\ ~gameState.hunter.inCabin

\* C5: a tick on a state with 0 <= timeOfDay <= 1 returns a state with
\* 0 <= timeOfDay <= 1, and the tick in which the day timer crosses 1.0
\* leaves timeOfDay equal to 1.0.
C5_TimeOfDayInRange ==
    (played /\ pre.timeOfDay \in 0..ONE) =>
        /\ gameState.timeOfDay \in 0..ONE
        /\ (~pre.isNight /\ gameState.isNight) => gameState.timeOfDay = ONE

\* C6: a tick performs the day-to-night transition at most once, and exactly
\* when isNight goes from false to true: nightTimer is then 0 and tracking is
\* armed; a tick that begins and ends in the night performs none: nightTimer
\* is not reset and tracking is not armed again.
C6_NightFallsOnce ==
    played =>
        /\ count("NIGHT_FALLS") <= 1
        /\ said("NIGHT_FALLS") <=> (~pre.isNight /\ gameState.isNight)
        /\ (~pre.isNight /\ gameState.isNight) =>
              gameState.nightTimer = 0 /\ gameState.demon.canTrack
        /\ (pre.isNight /\ gameState.isNight) =>
              /\ gameState.nightTimer = pre.nightTimer + call.dt
              /\ gameState.demon.canTrack => pre.demon.canTrack

\* night falls in a tick of dt = 0 on a day that a shot penalty had brought
\* to timeOfDay = 1.0
C6_Witness ==
    /\ played
    /\ ~pre.isNight
    /\ pre.timeOfDay = ONE
    /\ call.dt = 0
    /\ gameState.isNight
    /\ count("NIGHT_FALLS") = 1

\* C7: in a tick with dt > 0 that begins and ends in the day, nightTimer is
\* unchanged (and 0) and timeOfDay advances; in one that begins and ends in
\* the night, timeOfDay is unchanged and nightTimer advances by dt.
C7_OneTimerPerBranch ==
    (played /\ call.dt > 0) =>
        /\ (~pre.isNight /\ ~gameState.isNight) =>
              /\ gameState.nightTimer = pre.nightTimer
              /\ gameState.nightTimer = 0
              /\ gameState.timeOfDay > pre.timeOfDay
        /\ (pre.isNight /\ gameState.isNight) =>
              /\ gameState.timeOfDay = pre.timeOfDay
              /\ gameState.nightTimer = pre.nightTimer + call.dt

\* the hunter fires in a tick of the night
C7_Witness ==
    /\ played
    /\ call.dt > 0
    /\ pre.isNight
    /\ gameState.isNight
    /\ call.hunterInput.action
    /\ pre.hunter.cooldown <= 0
    /\ gameState.hunter.cooldown = SHOOT_COOLDOWN

\* C8: neither the hunter nor the demon is outside the map inset by its
\* radius, or overlaps a tree's collision box or the cabin's circle.
C8_CombatantsStayClear ==
    /\ ~checkCollision(gameState.hunter.pos, gameState.hunter.size,
                       gameState.trees \o <<gameState.cabin>>)
    /\ ~checkCollision(gameState.demon.pos, gameState.demon.size,
                       gameState.trees \o <<gameState.cabin>>)

\* the demon has slid along the edge of the map
C8_Witness ==
    /\ played
    /\ gameState.demon.pos # pre.demon.pos
    /\ call.input.demon.pos = gameState.demon.pos
    /\ gameState.demon.pos.x = MAP_SIZE - gameState.demon.size

\* C9: updateGame does not mutate the state it is given: after the call the
\* input state is as it was before.
C9_InputNotMutated ==
    call.made => call.input = pre

(***************************************************************************)
(* Properties of the client, on the last packet handled                    *)
(***************************************************************************)
\* C10: a STATE_UPDATE handled on a connection on which no START_GAME has
\* been handled changes neither the rendered game state nor the
\* interpolation target of the client.
C10_StateUpdateIgnoredBeforeStart ==
    (delivered.made /\ delivered.data.type = "STATE_UPDATE" /\ ~delivered.started) =>
        /\ delivered.after.gameState = delivered.before.gameState
        /\ delivered.after.targetGameStateRef = delivered.before.targetGameStateRef

\* after a reconnect the STATE_UPDATE of the match that goes on arrives on
\* the new connection; the target of the previous connection is still there
C10_Witness ==
    /\ delivered.made
    /\ delivered.data.type = "STATE_UPDATE"
    /\ ~delivered.started
    /\ delivered.conn > 1
    /\ delivered.before.targetGameStateRef # null

(***************************************************************************)
(* Properties of the STATE_UPDATE round trip                               *)
(***************************************************************************)
\* two lengths in units of 1/SubPixel that differ by at most half a pixel
near(a, b) == 2 * Abs(a - b) <= SubPixel

nearPos(p, q) == near(p.x, q.x) /\ near(p.y, q.y)

\* two entities that are equal but for their positions, which are near
sameEntity(e, f) == nearPos(e.pos, f.pos) /\ [e EXCEPT !.pos = f.pos] = f

sameEntities(es, fs) ==
    Len(es) = Len(fs) /\ \A i \in 1..Len(es) : sameEntity(es[i], fs[i])

\* C11: when the client merges the STATE_UPDATE of a host state into its
\* target, the phase, timers, flags, messages and lists of the merged state
\* are the host's, each position is within 0.5 of the host's, and trees and
\* cabin are those of the target the client had.
C11_StateUpdateRoundTrip ==
    (delivered.made /\ delivered.data.type = "STATE_UPDATE"
        /\ delivered.data.state = stateUpdate(gameState, SubPixel).state
        /\ delivered.before.gameStartedRef
        /\ delivered.before.targetGameStateRef # null) =>
        LET merged == delivered.after.targetGameStateRef
            prior == delivered.before.targetGameStateRef
        IN  /\ DOMAIN merged = DOMAIN gameState
            /\ \A f \in {"phase", "timeOfDay", "isNight", "nightTimer", "messages"} :
                   merged[f] = gameState[f]
            /\ sameEntity(merged.hunter, gameState.hunter)
            /\ sameEntity(merged.demon, gameState.demon)
            /\ sameEntities(merged.mushrooms, gameState.mushrooms)
            /\ sameEntities(merged.deers, gameState.deers)
            /\ sameEntities(merged.bullets, gameState.bullets)
            /\ merged.trees = prior.trees
            /\ merged.cabin = prior.cabin

\* a state with a bullet and a deer between two pixels has been merged into
\* a target with another map
C11_Witness ==
    /\ delivered.made
    /\ delivered.data.type = "STATE_UPDATE"
    /\ delivered.after.targetGameStateRef # delivered.before.targetGameStateRef
    /\ delivered.after.targetGameStateRef.hunter.pos # gameState.hunter.pos
    /\ gameState.bullets # <<>>
    /\ gameState.deers # <<>>
    /\ gameState.isNight
    /\ delivered.before.targetGameStateRef.trees # gameState.trees

(***************************************************************************)
(* Properties of the host's tick                                           *)
(***************************************************************************)
\* the input of the remote role in the last call
remoteInput == IF hostApp.myRole = "HUNTER" THEN call.demonInput ELSE call.hunterInput

\* the payload of the last INPUT_UPDATE the host has handled
lastInputUpdate == IF received.made THEN received.data.input ELSE noInput

\* C12: in every tick of the host the input of the remote role is the
\* payload of the last INPUT_UPDATE handled, all keys up before the first;
\* ticks without a new message use the same input again.
C12_RemoteInputIsLastReceived ==
    [][ticks' = ticks + 1 => remoteInput' = lastInputUpdate]_vars

\* the second tick uses the input that came before the first, after a later
\* loss of the connection
C12_Witness ==
    /\ ticks >= 2
    /\ call.made
    /\ received.made
    /\ received.ticks = 0
    /\ received.data.input = keyLeft
    /\ remoteInput = keyLeft
    /\ hostApp.connRef = 0

\* the connection of the host's client is open on the host's side
clientEstablished == hostApp.connRef # 0 /\ conns[hostApp.connRef].host = "OPEN"

\* C13: the host serves one client: while the connection of its client is
\* open no other connection becomes the host's connection, and the remote
\* input is written only by packets of the host's current connection.
C13_OneClient ==
    [][/\ clientEstablished => hostApp'.connRef = hostApp.connRef
       /\ received' # received => received'.conn = hostApp.connRef]_vars

(***************************************************************************)
(* Properties of the actions of a tick                                     *)
(***************************************************************************)
\* the hunter, in the open with its gun ready, fires in the call
hunterFires ==
    /\ played
    /\ call.hunterInput.action
    /\ pre.hunter.cooldown <= 0
    /\ ~pre.hunter.inCabin
    /\ ~gameState.hunter.inCabin

\* C14: when an unsheltered hunter with cooldown <= 0 requests fire, the tick
\* adds exactly one projectile, at the hunter's position, with velocity
\* BULLET_SPEED along the hunter's facing angle; the cooldown becomes
\* SHOOT_COOLDOWN; in day timeOfDay is raised by
\* SHOOT_PENALTY_SECONDS / DAY_DURATION_SECONDS.
C14_ShotAddsProjectileAtHunter ==
    (hunterFires /\ pre.bullets = <<>>) =>
        /\ Len(gameState.bullets) = 1
        /\ gameState.bullets[1].pos = gameState.hunter.pos
        /\ gameState.bullets[1].velocity =
              Vec(angleDir(gameState.hunter.angle).x * BULLET_SPEED,
                  angleDir(gameState.hunter.angle).y * BULLET_SPEED)
        /\ gameState.hunter.cooldown = SHOOT_COOLDOWN
        /\ ~gameState.isNight =>
              gameState.timeOfDay =
                  pre.timeOfDay + (call.dt * ONE) \div DAY_DURATION_SECONDS
                      + (SHOOT_PENALTY_SECONDS * ONE) \div DAY_DURATION_SECONDS

\* the demon asks for its action in a tick that begins and ends in the day
demonActsInDay == played /\ call.demonInput.action /\ ~pre.isNight /\ ~gameState.isNight

\* the mushrooms within the eating radius of the demon
mushroomsInRange ==
    {i \in 1..Len(pre.mushrooms) :
        distanceLess(gameState.demon.pos, pre.mushrooms[i].pos, EAT_RANGE)}

\* timeOfDay when the demon's action is looked at: after the day timer and
\* the penalty of a shot of the same tick
timeBeforeEating ==
    LET t == pre.timeOfDay + (call.dt * ONE) \div DAY_DURATION_SECONDS
    IN  IF said("SHOT_PENALTY")
        THEN Min(ONE, t + (SHOOT_PENALTY_SECONDS * ONE) \div DAY_DURATION_SECONDS)
        ELSE t

\* the mushrooms but for the first one in range
oneEaten ==
    LET first == CHOOSE i \in mushroomsInRange : \A j \in mushroomsInRange : i <= j
    IN  [k \in 1..(Len(pre.mushrooms) - 1) |->
            IF k < first THEN pre.mushrooms[k] ELSE pre.mushrooms[k + 1]]

C16_TrackingOncePerNight ==
    played =>
        /\ count("DEMON_SENSING") <= 1
        /\ said("DEMON_SENSING") =>
              /\ pre.isNight /\ gameState.isNight
              /\ pre.demon.canTrack
              /\ ~gameState.demon.canTrack
              /\ gameState.demon.trackingActiveTime = DEMON_TRACKING_DURATION
        /\ ~said("DEMON_SENSING") =>
              gameState.demon.trackingActiveTime <= Max(pre.demon.trackingActiveTime, 0)
        /\ (pre.isNight /\ ~pre.demon.canTrack) =>
              /\ ~gameState.demon.canTrack
              /\ ~said("DEMON_SENSING")
        /\ ~gameState.isNight => ~gameState.demon.canTrack

\* the demon holds its action key in a tick of the night in which the window
\* is already open
C16_Witness ==
    /\ played
    /\ pre.isNight
    /\ gameState.isNight
    /\ ~pre.demon.canTrack
    /\ pre.demon.trackingActiveTime > 0
    /\ 2 * gameState.nightTimer > 1
    /\ call.demonInput.action
    /\ call.dt > 0
    /\ gameState.demon.trackingActiveTime < pre.demon.trackingActiveTime

\* the call begins with the demon stunned
demonStunned == played /\ pre.demon.stunTimer > 0

\* C17 as stated: in a tick that begins with demon.stunTimer > 0 the
\* demon's position and angle are unchanged, whatever its input, and the
\* stun timer is lower by dt.
C17_StunnedDemonStaysTimerRuns ==
    demonStunned =>
        /\ gameState.demon.pos = pre.demon.pos
        /\ gameState.demon.angle = pre.demon.angle
        /\ gameState.demon.stunTimer = pre.demon.stunTimer - call.dt

\* C17, amended: in a tick of a match in play that begins with
\* demon.stunTimer > 0 the demon's position and angle are unchanged,
\* whatever its input, and the stun timer is lower by dt, unless a
\* projectile hits the demon in the tick: then it is DEMON_STUN_DURATION.
C17_StunnedDemonStays ==
    demonStunned =>
        /\ gameState.demon.pos = pre.demon.pos
        /\ gameState.demon.angle = pre.demon.angle
        /\ gameState.demon.stunTimer =
              IF said("DEMON_STUNNED") THEN DEMON_STUN_DURATION
              ELSE pre.demon.stunTimer - call.dt

\* the stunned demon's player holds a movement key
C17_Witness ==
    /\ demonStunned
    /\ call.dt > 0
    /\ call.demonInput.left
    /\ gameState.demon.pos = pre.demon.pos
    /\ gameState.demon.stunTimer = pre.demon.stunTimer - call.dt

\* the hunter's move of the call: the hunter is in the open and a direction
\* is held
hunterWalks == played /\ ~pre.hunter.inCabin /\ moveVector(call.hunterInput) # Vec(0, 0)

hunterNextPos ==
    add(pre.hunter.pos,
        scale(normalize(moveVector(call.hunterInput)),
              1000 * MOVE_SPEED_HUNTER * call.dt * FPS))

\* the demon's move of the call: the demon is not stunned and a direction is
\* held; the speed is the one of the phase of the day the call has reached
demonWalks == played /\ pre.demon.stunTimer <= 0 /\ moveVector(call.demonInput) # Vec(0, 0)

demonMoveDist ==
    (IF gameState.isNight THEN MOVE_SPEED_DEMON * NIGHT_SPEED_TENTHS * 100
     ELSE MOVE_SPEED_DEER * 1000) * call.dt * FPS

demonNextPos ==
    add(pre.demon.pos, scale(normalize(moveVector(call.demonInput)), demonMoveDist))

diagonal(input) == moveVector(input).x # 0 /\ moveVector(input).y # 0

blocked(pos, size) == checkCollision(pos, size, pre.trees \o <<pre.cabin>>)

\* the full destination is blocked and exactly one of the two destinations
\* along one axis is free
oneAxisFree(pos, nextPos, size) ==
    /\ blocked(nextPos, size)
    /\ blocked(Vec(nextPos.x, pos.y), size) # blocked(Vec(pos.x, nextPos.y), size)

\* the position after a sliding along the free axis
alongFreeAxis(pos, nextPos, size) ==
    IF blocked(Vec(nextPos.x, pos.y), size) THEN Vec(pos.x, nextPos.y)
    ELSE Vec(nextPos.x, pos.y)

\* C18: a combatant that moves diagonally, whose full destination is blocked
\* and whose destination along exactly one axis is free, ends the tick moved
\* along the free axis by that axis's component of the displacement, at its
\* old coordinate along the blocked axis, and not where it was.
C18_SlidesAlongFreeAxis ==
    /\ hunterWalks /\ diagonal(call.hunterInput)
         /\ oneAxisFree(pre.hunter.pos, hunterNextPos, pre.hunter.size)
       => /\ gameState.hunter.pos
               = alongFreeAxis(pre.hunter.pos, hunterNextPos, pre.hunter.size)
          /\ gameState.hunter.pos # pre.hunter.pos
    /\ demonWalks /\ diagonal(call.demonInput)
         /\ oneAxisFree(pre.demon.pos, demonNextPos, pre.demon.size)
       => /\ gameState.demon.pos
               = alongFreeAxis(pre.demon.pos, demonNextPos, pre.demon.size)
          /\ gameState.demon.pos # pre.demon.pos

\* the hunter has slid along x past the wall of the cabin, which blocks y
C18_Witness ==
    /\ hunterWalks /\ diagonal(call.hunterInput)
    /\ oneAxisFree(pre.hunter.pos, hunterNextPos, pre.hunter.size)
    /\ gameState.hunter.pos.x # pre.hunter.pos.x
    /\ gameState.hunter.pos.y = pre.hunter.pos.y

\* the demon has slid along y down the edge of the map, which blocks x
demonSlidesAlongY ==
    /\ demonWalks /\ diagonal(call.demonInput)
    /\ oneAxisFree(pre.demon.pos, demonNextPos, pre.demon.size)
    /\ gameState.demon.pos.y # pre.demon.pos.y
    /\ gameState.demon.pos.x = pre.demon.pos.x

\* the hunter's speed times dt, in thousandths of a pixel
hunterMoveDist == 1000 * MOVE_SPEED_HUNTER * call.dt * FPS

\* v, in whole pixels, is as long as moveDist, in thousandths of a pixel,
\* as far as whole pixels can tell: each coordinate is rounded by at most
\* half a pixel, the length by at most 0.708
asLongAs(v, moveDist) ==
    LET l2 == (v.x * v.x + v.y * v.y) * 1000000
        low == IF moveDist > 708 THEN (moveDist - 708) * (moveDist - 708) ELSE 0
    IN  low <= l2 /\ l2 <= (moveDist + 708) * (moveDist + 708)

\* C19: a combatant whose destination is not blocked ends the tick at its
\* old position plus speed * dt along the normalized direction of its keys
\* (hunter: MOVE_SPEED_HUNTER * FPS a second; demon: MOVE_SPEED_DEER * FPS in
\* day, MOVE_SPEED_DEMON * 1.3 * FPS at night), and the distance is speed * dt
\* for a diagonal direction as for one along an axis.
C19_UnblockedMoveIsSpeedTimesDt ==
    /\ hunterWalks /\ ~blocked(hunterNextPos, pre.hunter.size)
       => /\ gameState.hunter.pos = hunterNextPos
          /\ asLongAs(sub(gameState.hunter.pos, pre.hunter.pos), hunterMoveDist)
    /\ demonWalks /\ ~blocked(demonNextPos, pre.demon.size)
       => /\ gameState.demon.pos = demonNextPos
          /\ asLongAs(sub(gameState.demon.pos, pre.demon.pos), demonMoveDist)

\* the hunter has walked a diagonal in the open
C19_Witness ==
    /\ hunterWalks /\ diagonal(call.hunterInput) /\ call.dt > 0
    /\ ~blocked(hunterNextPos, pre.hunter.size)
    /\ gameState.hunter.pos # pre.hunter.pos

\* the demon has walked a diagonal at night, and one in day
demonWalksDiagonal(night) ==
    /\ demonWalks /\ diagonal(call.demonInput) /\ call.dt > 0
    /\ ~blocked(demonNextPos, pre.demon.size)
    /\ gameState.isNight = night
    /\ gameState.demon.pos # pre.demon.pos

\* what updateGame can return for the call that call' describes
updateGameResults ==
    {updateGameCall(gameState, call'.hunterInput, call'.demonInput, call'.dt, rnd).s :
        rnd \in Random(gameState, call'.dt)}

\* C20: a tick of the host whose send of the STATE_UPDATE throws keeps the
\* result of updateGame, the state it keeps when the send succeeds, and puts
\* nothing on the connection; the tick after it calls updateGame on that
\* state and sends again, and a send that succeeds puts the STATE_UPDATE of
\* the new state on the connection.
C20_SendFailureSwallowed ==
    [][ticks' = ticks + 1
       => /\ gameState' \in updateGameResults
          /\ call'.state = gameState
          /\ call'.sent = "THREW"
             => conns' = conns
          /\ call.made /\ call.sent = "THREW"
             => /\ call'.afterThrow
                /\ call'.sent # "NONE"
                /\ call'.sent = "SENT"
                   => conns'[hostApp.connRef].toClient
                        = Append(conns[hostApp.connRef].toClient,
                                 stateUpdate(gameState', 1))]_vars

\* the tick after a send that threw has run and has sent its STATE_UPDATE
C20_Witness ==
    /\ call.made /\ call.afterThrow /\ call.sent = "SENT"
    /\ gameState # call.state
    /\ gameState.phase = "PLAYING"

\* C21: a call on a state whose phase is not PLAYING returns a state equal
\* to its input in every field: timers, entities, projectiles and messages
\* are as they were.
C21_NotPlayingUnchanged ==
    (call.made /\ pre.phase # "PLAYING") => gameState = pre

\* a call on a state in the MENU phase has advanced the time of day
menuTickRuns ==
    /\ call.made /\ pre.phase = "MENU" /\ call.dt > 0
    /\ gameState.timeOfDay > pre.timeOfDay

\* C22: after the tick in which night flips back to day the demon is not
\* stunned, has no tracking charge and no open tracking window.
C22_DawnClearsStunAndTracking ==
    (played /\ said("DAWN"))
        => /\ gameState.demon.stunTimer <= 0
           /\ ~gameState.demon.canTrack
           /\ gameState.demon.trackingActiveTime <= 0

\* the tracking charge is cleared by the tick of dawn
dawnClearsCharge == (played /\ said("DAWN")) => ~gameState.demon.canTrack

\* a tracking window, and a stun, that were open before dawn are open after it
windowOverDawn ==
    /\ played /\ said("DAWN")
    /\ pre.demon.trackingActiveTime > 0
    /\ gameState.demon.trackingActiveTime = pre.demon.trackingActiveTime

stunOverDawn ==
    /\ played /\ said("DAWN")
    /\ gameState.demon.stunTimer > 0

\* C23: in a tick that starts with the demon stunned and in which the demon
\* asks for an action, the tracking charge is not used, no tracking window
\* is started and no mushroom is eaten (no eating bonus on timeOfDay).
C23_StunnedDemonCannotAct ==
    (demonStunned /\ call.demonInput.action)
        => /\ ~said("DEMON_SENSING")
           /\ gameState.demon.trackingActiveTime <= pre.demon.trackingActiveTime
           /\ ~said("DEMON_ATE")

\* the stunned demon has used its charge and opened the tracking window
stunnedDemonTracks ==
    /\ demonStunned /\ call.demonInput.action
    /\ gameState.demon.stunTimer > 0
    /\ pre.demon.canTrack /\ ~gameState.demon.canTrack
    /\ gameState.demon.trackingActiveTime = DEMON_TRACKING_DURATION

inCabinRange(state) ==
    distanceLess(state.hunter.pos, state.cabin.pos, state.cabin.size + CABIN_ENTRY_MARGIN)

\* C24: a night tick that leaves the unsheltered hunter outside the
\* interaction radius of the cabin leaves enterTimer at 0.
C24_LeavingResetsEnterTimer ==
    [][(ticks' = ticks + 1 /\ gameState'.isNight /\ ~gameState'.hunter.inCabin
            /\ ~inCabinRange(gameState'))
        => gameState'.hunter.enterTimer = 0]_vars

\* the hunter has stepped out of the radius in a tick of dt > 0 and the
\* timer only went down
timerDecays ==
    /\ gameState.isNight /\ ~gameState.hunter.inCabin /\ ~inCabinRange(gameState)
    /\ gameState.hunter.enterTimer > 0

\* outside the radius the timer goes down by 2 * dt, not below 0
timerGoesDownOutside ==
    [][(ticks' = ticks + 1 /\ gameState'.isNight /\ ~gameState'.hunter.inCabin
            /\ ~inCabinRange(gameState'))
        => \E dt \in 0..TimeUnit :
              gameState'.hunter.enterTimer = Max(0, gameState.hunter.enterTimer - 2 * dt)]_vars

\* the mushrooms in range that are as near to the demon as any in range
nearestInRange ==
    {i \in mushroomsInRange :
        \A j \in mushroomsInRange :
            Dist2(gameState.demon.pos, pre.mushrooms[i].pos)
                <= Dist2(gameState.demon.pos, pre.mushrooms[j].pos)}

\* the list without its i-th mushroom
without(i) ==
    [k \in 1..(Len(pre.mushrooms) - 1) |->
        IF k < i THEN pre.mushrooms[k] ELSE pre.mushrooms[k + 1]]

\* C25: when the demon asks for its action in day with several mushrooms in
\* range, the mushroom removed is one nearest to the demon.
C25_NearestMushroomEaten ==
    (demonActsInDay /\ Cardinality(mushroomsInRange) > 1)
        => \E i \in nearestInRange : gameState.mushrooms = without(i)

\* the demon has eaten the first mushroom of the list, the second was nearer
fartherEaten ==
    /\ demonActsInDay /\ Cardinality(mushroomsInRange) > 1
    /\ gameState.mushrooms = oneEaten
    /\ nearestInRange = {2}

pong(ping) == [type |-> "PONG", timestamp |-> ping.timestamp]

\* C26: a peer that takes a PING from an open connection puts a PONG with
\* the same timestamp on that connection, the host as well as the client.
C26_PingAnswered ==
    [][\A k \in ConnIds :
          /\ (/\ conns[k].toHost # <<>>
              /\ Head(conns[k].toHost).type = "PING"
              /\ conns'[k].toHost = Tail(conns[k].toHost))
             => conns'[k].toClient = Append(conns[k].toClient, pong(Head(conns[k].toHost)))
          /\ (/\ conns[k].toClient # <<>>
              /\ Head(conns[k].toClient).type = "PING"
              /\ conns'[k].toClient = Tail(conns[k].toClient))
             => conns'[k].toHost = Append(conns[k].toHost, pong(Head(conns[k].toClient)))]_vars

\* the client answers the PINGs of the host
clientAnswers ==
    [][\A k \in ConnIds :
          (/\ conns[k].toClient # <<>>
           /\ Head(conns[k].toClient).type = "PING"
           /\ conns'[k].toClient = Tail(conns[k].toClient))
          => conns'[k].toHost = Append(conns[k].toHost, pong(Head(conns[k].toClient)))]_vars

\* the host has a latency value
hostHasLatency == hostApp.latency # null

\* the client never gets one, and the host has taken a PING of the client
clientHasNoLatency == clientApp.latency = null

hostTookPing == received.made /\ received.data.type = "PING"

\* an entity, or a projectile, equal to that of the target but for its pos
butPos(e, targetE) == [e EXCEPT !.pos = targetE.pos] = targetE

\* C27: the state interpolateGameState returns has the target's phase,
\* timeOfDay, isNight, nightTimer, messages and mushrooms, the target's
\* hunter and demon but for pos, and the target's deer and projectiles, in
\* the target's order, but for pos.
C27_OnlyPositionsInterpolated ==
    call.made =>
        LET r == clientApp.gameState
            target == call.target
        IN  /\ DOMAIN r = DOMAIN target
            /\ \A f \in (DOMAIN target) \ {"hunter", "demon", "deers", "bullets"} :
                  r[f] = target[f]
            /\ butPos(r.hunter, target.hunter)
            /\ butPos(r.demon, target.demon)
            /\ Len(r.deers) = Len(target.deers)
            /\ \A i \in 1..Len(target.deers) : butPos(r.deers[i], target.deers[i])
            /\ Len(r.bullets) = Len(target.bullets)
            /\ \A i \in 1..Len(target.bullets) : butPos(r.bullets[i], target.bullets[i])

\* a frame toward a target that differs from the current state in its
\* time, its messages and its projectiles; the hunter is on the way
C27_Witness ==
    /\ call.made
    /\ call.target.timeOfDay # call.current.timeOfDay
    /\ call.target.messages # call.current.messages
    /\ call.target.isNight # call.current.isNight
    /\ Len(call.target.bullets) # Len(call.current.bullets)
    /\ clientApp.gameState.hunter.pos # call.target.hunter.pos
    /\ clientApp.gameState.hunter.pos # call.current.hunter.pos

\* the pairs <<current pos, target pos, resulting pos>> of a frame: hunter,
\* demon, each deer of the target that the current state has (by id), each
\* projectile of the target that the current state has (by index)
interpolated ==
    LET r == clientApp.gameState
        current == call.current
        target == call.target
        deerOf(i) == {j \in 1..Len(current.deers) : current.deers[j].id = target.deers[i].id}
    IN  {<<current.hunter.pos, target.hunter.pos, r.hunter.pos>>,
         <<current.demon.pos, target.demon.pos, r.demon.pos>>}
        \cup {<<current.deers[CHOOSE j \in deerOf(i) : \A k \in deerOf(i) : j <= k].pos,
                target.deers[i].pos, r.deers[i].pos>> :
                 i \in {i \in 1..Len(target.deers) : deerOf(i) # {}}}
        \cup {<<current.bullets[i].pos, target.bullets[i].pos, r.bullets[i].pos>> :
                 i \in 1..Min(Len(target.bullets), Len(current.bullets))}

between(a, x, b) == (a <= x /\ x <= b) \/ (b <= x /\ x <= a)

far(a, b) == Abs(a.x - b.x) > LERP_SNAP \/ Abs(a.y - b.y) > LERP_SNAP

\* C28: an interpolated position is the target position when current and
\* target differ by more than the snap distance on an axis; otherwise each
\* coordinate is current + (target - current) * min(1, 15 * dt): between
\* current and target, no farther from the target than current was, and the
\* target when dt >= 1/15 s.
C28_LerpTowardTarget ==
    call.made =>
        \A p \in interpolated :
            LET current == p[1]
                target == p[2]
                r == p[3]
                t == lerpT(call.dt)
            IN  IF far(current, target) THEN r = target
                ELSE /\ r.x = current.x + Round((target.x - current.x) * t, 1000)
                     /\ r.y = current.y + Round((target.y - current.y) * t, 1000)
                     /\ between(current.x, r.x, target.x)
                     /\ between(current.y, r.y, target.y)
                     /\ Abs(target.x - r.x) <= Abs(target.x - current.x)
                     /\ Abs(target.y - r.y) <= Abs(target.y - current.y)
                     /\ 15 * call.dt >= 1000 => r = target

\* a frame shorter than 1/15 s has put the demon on a far target and the
\* hunter strictly between its position and a near target
C28_Witness ==
    /\ call.made /\ 0 < call.dt /\ 15 * call.dt < 1000
    /\ far(call.current.demon.pos, call.target.demon.pos)
    /\ clientApp.gameState.demon.pos = call.target.demon.pos
    /\ ~far(call.current.hunter.pos, call.target.hunter.pos)
    /\ clientApp.gameState.hunter.pos # call.target.hunter.pos
    /\ clientApp.gameState.hunter.pos # call.current.hunter.pos

\* a frame of 1/15 s or more has put a near position on its target, a second
\* frame has come closer to the target than the first, a deer and a
\* projectile are interpolated
lerpCases ==
    /\ call.made
    /\ \E p \in interpolated : ~far(p[1], p[2]) /\ p[1] # p[2] /\ 15 * call.dt >= 1000
    /\ Cardinality(interpolated) > 3

\* a projectile at pos overlaps nothing of the state and is inside the map
clearOf(pos, state) ==
    /\ 0 <= pos.x /\ pos.x <= MAP_SIZE /\ 0 <= pos.y /\ pos.y <= MAP_SIZE
    /\ ~checkCollision(pos, BULLET_RADIUS, state.trees \o <<state.cabin>>)
    /\ ~distanceLess(pos, state.demon.pos, state.demon.size + HIT_MARGIN)
    /\ \A i \in 1..Len(state.deers) :
          ~distanceLess(pos, state.deers[i].pos, state.deers[i].size + HIT_MARGIN)

\* C29: after a tick every projectile of the state is active, inside the
\* map, and overlaps no tree, no cabin, not the demon and no deer.
C29_BulletsActiveAndClear ==
    call.made =>
        \A i \in 1..Len(gameState.bullets) :
            /\ gameState.bullets[i].active
            /\ clearOf(gameState.bullets[i].pos, gameState)

\* a projectile has flown on in a tick with dt > 0, and a tick has removed
\* the projectile that hit the demon
C29_Witness ==
    /\ played /\ call.dt > 0
    /\ Len(pre.bullets) > 0 /\ Len(gameState.bullets) > 0
    /\ gameState.bullets[1].pos # pre.bullets[1].pos

bulletRemoved ==
    /\ played /\ Len(pre.bullets) > 0 /\ gameState.bullets = <<>>
    /\ ~call.hunterInput.action

(***************************************************************************)
(* The computer opponent: calculateBotInput for the demon, and the frame   *)
(* of the local loop that asks it for the demon's input.  What the demon   *)
(* perceives (vision radius, bushes, line of sight) and the keys its       *)
(* steering and obstacle avoidance end in are inputs of the call; what the *)
(* call writes into the combatant it is given is computed as the code      *)
(* computes it.                                                            *)
(***************************************************************************)
\* the frames of a match against the computer
MaxBotFrames == 1

\* the literals of the controller (scaled)
PATROL_REACH == 4
INVESTIGATE_SECONDS == 2
FORAGE_REACH == 3

hasAiState(e) == "aiState" \in DOMAIN e

\* demon.aiState = ai
withAiState(e, ai) ==
    [f \in DOMAIN e \cup {"aiState"} |-> IF f = "aiState" THEN ai ELSE e[f]]

\* the stop-and-go timer of the day
mimicTimer(ai, dt, rnd) ==
    LET timer == ai.timer - dt * FPS
    IN  IF timer <= 0
        THEN [ai EXCEPT !.targetPos = IF @ # null THEN null ELSE rnd.point,
                        !.timer = rnd.frames]
        ELSE [ai EXCEPT !.timer = timer]

\* a demon that goes back on patrol as soon as it has lost the hunter
nightHuntForgets(ai, demon, opponent, dt, sees, rnd) ==
    IF demon.trackingActiveTime > 0 \/ sees
    THEN [ai EXCEPT !.mode = "CHASE", !.targetPos = opponent.pos, !.timer = 0]
    ELSE [ai EXCEPT !.mode = "PATROL", !.targetPos = rnd.point]

\* the state machine of the night and the patrol target
nightHunt(ai, demon, opponent, dt, sees, rnd) ==
    LET canSeeHunter == demon.trackingActiveTime > 0 \/ sees
        reached(a) == a.targetPos # null
                      /\ distanceLess(demon.pos, a.targetPos, PATROL_REACH)
        a1 == IF canSeeHunter
              THEN [ai EXCEPT !.mode = "CHASE", !.targetPos = opponent.pos, !.timer = 0]
              ELSE IF ai.mode = "CHASE"
              THEN [ai EXCEPT !.mode = "INVESTIGATE", !.timer = INVESTIGATE_SECONDS]
              ELSE IF ai.mode = "INVESTIGATE"
              THEN LET a == [ai EXCEPT !.timer = @ - dt]
                   IN  IF a.timer <= 0 \/ reached(a)
                       THEN [a EXCEPT !.mode = "PATROL", !.targetPos = null]
                       ELSE a
              ELSE ai
    IN  IF a1.mode = "PATROL" /\ (a1.targetPos = null \/ reached(a1))
        THEN [a1 EXCEPT !.lastPatrolPoint = IF a1.targetPos # null THEN a1.targetPos
                                            ELSE demon.pos,
                        !.targetPos = rnd.point]
        ELSE a1

\* a conversion that presses the key against the vector as well
vectorToInputBothWays(input, moveDir) ==
    [input EXCEPT !.right = moveDir.x > 100, !.left = Abs(moveDir.x) > 100,
                  !.down = moveDir.y > 100, !.up = Abs(moveDir.y) > 100]

\* the steering vector (in thousandths) becomes keys: the larger component
\* presses its key from 0.1 on, the smaller one from 0.5 on
vectorToInput(input, moveDir) ==
    LET x == moveDir.x
        y == moveDir.y
        wide == Abs(x) > Abs(y)
        xMin == IF wide THEN 100 ELSE 500
        yMin == IF wide THEN 500 ELSE 100
    IN  IF x * x + y * y > 100000
        THEN [input EXCEPT !.right = x > xMin,
                           !.left = ~(x > xMin) /\ x < 0 - xMin,
                           !.down = y > yMin,
                           !.up = ~(y > yMin) /\ y < 0 - yMin]
        ELSE input

\* calculateBotInput(me, opponent, mushrooms, ..., isNight, dt) for the demon:
\* the combatant as the call leaves it, and the input it returns; moveDir is
\* the steering vector the targets and the obstacles around add up to
calculateBotInput(me, opponent, mushrooms, isNight, dt, sees, moveDir, rnd) ==
    LET demon == IF hasAiState(me) THEN me
                 ELSE withAiState(me, [mode |-> "PATROL", targetPos |-> null,
                                       timer |-> 0, lastPatrolPoint |-> null])
        ai == demon.aiState
        forages == ~isNight /\ ~sees /\ mushrooms # <<>>
        after == IF isNight THEN nightHunt(ai, demon, opponent, dt, sees, rnd)
                 ELSE IF forages THEN ai
                 ELSE mimicTimer(ai, dt, rnd)
        action == \/ isNight /\ demon.canTrack
                  \/ forages /\ \E i \in 1..Len(mushrooms) :
                                   distanceLess(demon.pos, mushrooms[i].pos, FORAGE_REACH)
    IN  IF me.stunTimer > 0 THEN [me |-> me, input |-> noInput]
        ELSE [me |-> [demon EXCEPT !.aiState = after],
              input |-> vectorToInput([noInput EXCEPT !.action = action], moveDir)]

\* one frame of the loop of a match the hunter's player plays against the
\* computer: the controller is called on prev.demon, then updateGame on prev;
\* draw holds the point and the timer Math.random() leads to in the call
botFrame(state, localInput, dt, sees, moveDir, rnd, draw) ==
    LET bot == calculateBotInput(state.demon, state.hunter, state.mushrooms,
                                 state.isNight, dt, sees, moveDir, draw)
        prev == [state EXCEPT !.demon = bot.me]
    IN  [me |-> bot.me, input |-> bot.input,
         c |-> updateGameCall(prev, localInput, bot.input, dt, rnd)]

BotFrame(localInput, dt, sees, moveDir) ==
    /\ ticks < MaxBotFrames
    /\ gameState.phase = "PLAYING"
    /\ \E rnd \in Random(gameState, dt),
          draw \in [point : {Vec(6, 34), Vec(34, 6)}, frames : {2}] :
          LET f == botFrame(gameState, localInput, dt, sees, moveDir, rnd, draw)
          IN  /\ gameState' = f.c.s
              /\ call' = [made |-> TRUE, state |-> gameState,
                          hunterInput |-> localInput, demonInput |-> f.input,
                          dt |-> dt, input |-> f.c.inp, events |-> f.c.ev,
                          me |-> gameState.demon, meAfter |-> f.me,
                          sees |-> sees, moveDir |-> moveDir]
    /\ ticks' = ticks + 1
    /\ UNCHANGED netVars

\* what the controller of the demon can remember: a mode, the target it
\* walks to, the seconds left to investigate
DemonAIStates ==
    [mode : {"PATROL", "CHASE", "INVESTIGATE"},
     targetPos : {null, Vec(27, 30), Vec(6, 34)},
     timer : 0..INVESTIGATE_SECONDS,
     lastPatrolPoint : {null}]

\* matches of one player: by day, by night and with the demon stunned, at
\* the first frame and, at night, with the controller in any state of its
\* memory
InitBot ==
    /\ gameState \in
          LET matches == {replay(s, script) :
                            s \in StartStates,
                            script \in {<<>>, nightInTheOpen,
                                        nightInTheOpen \o <<step(noInput, noInput, 2),
                                                            step(keyAction, noInput, 1)>>}}
          IN  matches \cup {[s EXCEPT !.demon = withAiState(@, ai)] :
                               s \in {m \in matches : m.isNight /\ m.demon.stunTimer = 0},
                               ai \in DemonAIStates}
    /\ call = noCall
    /\ ticks = 0
    /\ hostApp = hostInit
    /\ clientApp = clientInit
    /\ conns = noConns
    /\ delivered = noPacket
    /\ received = noPacket

SpecBot ==
    InitBot /\ [][\E localInput \in {keyUp}, dt \in DtValues, sees \in BOOLEAN,
                     moveDir \in {Vec(0, 0), Vec(-1200, 300)} :
                      BotFrame(localInput, dt, sees, moveDir)]_vars

\* C30: a call of calculateBotInput leaves every field of the combatant it
\* controls as it was; its only effect is the input it returns.
C30_BotLeavesWorldUnchanged == call.made => call.meAfter = call.me

\* a call on a demon that is not stunned has attached or rewritten aiState
botWroteAiState ==
    /\ call.made /\ call.me.stunTimer = 0
    /\ ~hasAiState(call.me) /\ hasAiState(call.meAfter)

\* the state machine of the night has gone from CHASE to INVESTIGATE in place
botRewroteAiState ==
    /\ call.made /\ hasAiState(call.me) /\ hasAiState(call.meAfter)
    /\ call.me.aiState.mode = "CHASE" /\ call.meAfter.aiState.mode = "INVESTIGATE"

\* the early return: the call on a stunned demon writes nothing
stunnedBotReturns ==
    call.made /\ call.me.stunTimer > 0 =>
        call.meAfter = call.me /\ call.demonInput = noInput

\* the calls of the controller at night on a demon that is not stunned
nightCall == call.made /\ call.state.isNight /\ call.me.stunTimer = 0

\* the hunter is detected in the call, by sight or by the tracking skill
detected == call.sees \/ call.me.trackingActiveTime > 0

\* the memory the call starts from: a demon without one starts on patrol
aiBefore ==
    IF hasAiState(call.me) THEN call.me.aiState
    ELSE [mode |-> "PATROL", targetPos |-> null, timer |-> 0, lastPatrolPoint |-> null]

\* C31: at night any mode goes to CHASE in a call that detects the hunter;
\* without detection CHASE goes to INVESTIGATE with a timer of 2 s and the
\* target kept, INVESTIGATE goes to PATROL exactly when its timer has run out
\* or the target is within reach, and PATROL stays PATROL.
C31_NightModeMachine ==
    nightCall =>
        LET before == aiBefore
            after == call.meAfter.aiState
            arrived == /\ before.targetPos # null
                       /\ distanceLess(call.me.pos, before.targetPos, PATROL_REACH)
        IN  /\ detected => after.mode = "CHASE" /\ after.targetPos = call.state.hunter.pos
            /\ ~detected /\ before.mode = "CHASE" =>
                  /\ after.mode = "INVESTIGATE"
                  /\ after.timer = INVESTIGATE_SECONDS
                  /\ after.targetPos = before.targetPos
            /\ ~detected /\ before.mode = "INVESTIGATE" =>
                  after.mode = IF before.timer - call.dt <= 0 \/ arrived
                               THEN "PATROL" ELSE "INVESTIGATE"
            /\ ~detected /\ before.mode = "PATROL" => after.mode = "PATROL"

\* the timer of INVESTIGATE has run out in a call and the demon patrols again
C31_Witness ==
    /\ nightCall /\ ~detected
    /\ aiBefore.mode = "INVESTIGATE" /\ aiBefore.timer = 1 /\ call.dt = 1
    /\ call.meAfter.aiState.mode = "PATROL"

\* a call has lost the hunter, and a call has kept investigating
chaseLost ==
    /\ nightCall /\ aiBefore.mode = "CHASE"
    /\ call.meAfter.aiState.mode = "INVESTIGATE"

stillInvestigating ==
    /\ nightCall /\ aiBefore.mode = "INVESTIGATE"
    /\ call.meAfter.aiState.mode = "INVESTIGATE"

(***************************************************************************)
(* calculateBotInput for the hunter, and the frame of the loop of a match  *)
(* the demon's player plays against the computer.  What the hunter sees,   *)
(* whether it faces its target, and the steering vector are inputs of the  *)
(* call; timers are in thousandths of a second.                            *)
(***************************************************************************)
\* the literals of the controller (scaled)
WITNESS_REACH == 8
STUCK_MOVE == 1
CABIN_DOOR_OFFSET == 3

\* the hunter that fires whenever it faces its target with the gun ready
fireAnyMode(ai, me, isNight, aligned, rnd) ==
    ai.targetPos # null /\ me.cooldown <= 0 /\ aligned

\* the hunter presses action: the shot of the chase, or the random shot of
\* a patrol by day
fire(ai, me, isNight, aligned, rnd) ==
    \/ ai.targetPos # null /\ ai.mode = "CHASE" /\ me.cooldown <= 0 /\ aligned
    \/ /\ ai.mode # "CHASE" /\ ai.mode # "RETURN_CABIN"
       /\ ~isNight /\ me.cooldown <= 0 /\ rnd.shoots

\* the stuck detection of the moving modes
stuckDetection(ai, myPos, dt) ==
    IF ai.mode \in {"PATROL", "RETURN_CABIN"} /\ ai.targetPos # null
    THEN LET lastPos == IF ai.lastPos = null THEN myPos ELSE ai.lastPos
             a == IF distanceLess(myPos, lastPos, STUCK_MOVE)
                  THEN [ai EXCEPT !.lastPos = lastPos, !.stuckTimer = @ + 1000 * dt]
                  ELSE [ai EXCEPT !.lastPos = myPos, !.stuckTimer = 0]
         IN  IF a.stuckTimer > 2000
             THEN [a EXCEPT !.mode = "IDLE", !.waitTimer = 500, !.targetPos = null,
                            !.stuckTimer = 0]
             ELSE a
    ELSE [ai EXCEPT !.stuckTimer = 0, !.lastPos = myPos]

\* 4. PATROL (Default); rnd.point is the point the draws end in, rnd.wait
\* the pause drawn on arrival
patrol(ai, myPos, dt, rnd) ==
    LET a1 == IF ai.mode \in {"CHASE", "RETURN_CABIN"}
              THEN [ai EXCEPT !.mode = "IDLE", !.waitTimer = 500, !.targetPos = null]
              ELSE ai
        a2 == IF a1.mode = "IDLE"
              THEN IF a1.waitTimer - 1000 * dt <= 0
                   THEN [a1 EXCEPT !.waitTimer = @ - 1000 * dt, !.mode = "PATROL",
                                   !.targetPos = rnd.point]
                   ELSE [a1 EXCEPT !.waitTimer = @ - 1000 * dt]
              ELSE a1
    IN  IF /\ a2.mode = "PATROL" /\ a2.targetPos # null
           /\ distanceLess(myPos, a2.targetPos, PATROL_REACH)
        THEN [a2 EXCEPT !.mode = "IDLE", !.waitTimer = rnd.wait, !.targetPos = null]
        ELSE a2

\* the state transitions of a hunter whose night priority spares a hunter
\* that has just been sent to IDLE
transitionsSpareIdle(ai, me, opponent, theCabin, isNight, witnessEating, dt, rnd) ==
    IF isNight /\ ~me.inCabin /\ ai.mode # "IDLE"
    THEN [ai EXCEPT !.mode = "RETURN_CABIN",
                    !.targetPos = Vec(theCabin.pos.x,
                                      theCabin.pos.y + theCabin.size + CABIN_DOOR_OFFSET)]
    ELSE patrol(ai, me.pos, dt, rnd)

\* State Transitions, on the memory the stuck detection has left
transitions(ai, me, opponent, theCabin, isNight, witnessEating, dt, rnd) ==
    IF isNight /\ ~me.inCabin
    THEN [ai EXCEPT !.mode = "RETURN_CABIN",
                    !.targetPos = Vec(theCabin.pos.x,
                                      theCabin.pos.y + theCabin.size + CABIN_DOOR_OFFSET)]
    ELSE IF witnessEating /\ ~isNight
    THEN [ai EXCEPT !.mode = "CHASE", !.targetPos = opponent.pos]
    ELSE IF ai.mode = "CHASE" /\ ~isNight
    THEN [ai EXCEPT !.targetPos = opponent.pos]
    ELSE patrol(ai, me.pos, dt, rnd)

\* calculateBotInput(me, opponent, mushrooms, ..., isNight, dt) for the
\* hunter: the combatant as the call leaves it, and the input it returns
hunterBot(me, opponent, mushrooms, theCabin, isNight, dt, sees, moveDir, rnd) ==
    LET hunter == IF hasAiState(me) THEN me
                  ELSE withAiState(me, [mode |-> "IDLE", targetPos |-> null,
                                        waitTimer |-> 0, stuckTimer |-> 0,
                                        lastPos |-> me.pos])
        witnessEating ==
            /\ sees.demon
            /\ \E i \in 1..Len(mushrooms) :
                  distanceLess(opponent.pos, mushrooms[i].pos, WITNESS_REACH)
        ai == transitions(stuckDetection(hunter.aiState, me.pos, dt), me, opponent,
                          theCabin, isNight, witnessEating, dt, rnd)
    IN  [me |-> [hunter EXCEPT !.aiState = ai],
         input |-> vectorToInput(
                      [noInput EXCEPT !.action = fire(ai, me, isNight, sees.aligned, rnd)],
                      moveDir)]

\* what the controller of the hunter can remember
HunterAIStates ==
    [mode : {"IDLE", "PATROL", "CHASE", "RETURN_CABIN"},
     targetPos : {null, Vec(20, 27), Vec(6, 34)},
     waitTimer : {0, 500},
     stuckTimer : {0, 2000},
     lastPos : {null, Vec(20, 32)}]

\* matches of the demon's player by day, at night in the open and at night
\* with the hunter in the cabin, the controller in any state of its memory
InitHunterBot ==
    /\ gameState \in
          LET matches == {replay(s, script) :
                            s \in StartStates,
                            script \in {<<>>, nightInTheOpen, sheltered}}
          IN  matches \cup {[s EXCEPT !.hunter = withAiState(@, ai)] :
                               s \in matches, ai \in HunterAIStates}
    /\ call = noCall
    /\ ticks = 0
    /\ hostApp = hostInit
    /\ clientApp = clientInit
    /\ conns = noConns
    /\ delivered = noPacket
    /\ received = noPacket

\* one frame of the loop: the controller is called on prev.hunter, then
\* updateGame on prev
HunterBotFrame(localInput, dt, sees, moveDir) ==
    /\ ~call.made
    /\ gameState.phase = "PLAYING"
    /\ \E rnd \in Random(gameState, dt),
          draw \in [point : {Vec(6, 34)}, wait : {500, 1000}, shoots : BOOLEAN] :
          LET bot == hunterBot(gameState.hunter, gameState.demon, gameState.mushrooms,
                               gameState.cabin, gameState.isNight, dt, sees, moveDir, draw)
              prev == [gameState EXCEPT !.hunter = bot.me]
              c == updateGameCall(prev, bot.input, localInput, dt, rnd)
          IN  /\ gameState' = c.s
              /\ call' = [made |-> TRUE, state |-> gameState,
                          hunterInput |-> bot.input, demonInput |-> localInput,
                          dt |-> dt, input |-> c.inp, events |-> c.ev,
                          me |-> gameState.hunter, meAfter |-> bot.me,
                          sees |-> sees, moveDir |-> moveDir]
    /\ ticks' = ticks + 1
    /\ UNCHANGED netVars

SpecHunterBot ==
    InitHunterBot
    /\ [][\E localInput \in {noInput, keyLeft}, dt \in DtValues,
             sees \in [demon : BOOLEAN, aligned : BOOLEAN],
             moveDir \in {Vec(0, 0), Vec(300, -1200)} :
              HunterBotFrame(localInput, dt, sees, moveDir)]_vars

\* the door point of the cabin
doorPoint(state) ==
    Vec(state.cabin.pos.x, state.cabin.pos.y + state.cabin.size + CABIN_DOOR_OFFSET)

\* C32: a call of the hunter's controller at night with the hunter not in
\* the cabin leaves the mode RETURN_CABIN and the target at the cabin door,
\* whatever the mode, the stuck timer and the sight were.
C32_NightReturnsToCabin ==
    call.made /\ call.state.isNight /\ ~call.me.inCabin =>
        /\ call.meAfter.aiState.mode = "RETURN_CABIN"
        /\ call.meAfter.aiState.targetPos = doorPoint(call.state)

\* the stuck detection has fired in a call of the night in the open
C32_Witness ==
    /\ call.made /\ call.state.isNight /\ ~call.me.inCabin
    /\ hasAiState(call.me)
    /\ call.me.aiState.mode = "RETURN_CABIN" /\ call.me.aiState.targetPos # null
    /\ call.me.aiState.lastPos = call.me.pos
    /\ call.me.aiState.stuckTimer + 1000 * call.dt > 2000
    /\ call.meAfter.aiState.stuckTimer = 0
    /\ call.meAfter.aiState.mode = "RETURN_CABIN"

\* C37: the input the hunter's controller returns at night has action
\* false, in the cabin or outside, in any mode it was in.
C37_NoShotAtNight ==
    call.made /\ call.state.isNight => ~call.hunterInput.action

\* a call at night on a hunter that was chasing, faces its target and has
\* the gun ready
C37_Witness ==
    /\ call.made /\ call.state.isNight /\ hasAiState(call.me)
    /\ call.me.aiState.mode = "CHASE" /\ call.me.aiState.targetPos # null
    /\ call.me.cooldown <= 0 /\ call.sees.aligned /\ call.sees.demon
    /\ call.meAfter.aiState.targetPos # null

\* the same in the cabin, where the chase is given up; and a shot by day
chaseGivenUpInCabin ==
    /\ call.made /\ call.state.isNight /\ call.me.inCabin /\ hasAiState(call.me)
    /\ call.me.aiState.mode = "CHASE" /\ call.sees.aligned
    /\ call.meAfter.aiState.mode # "CHASE"

botShotByDay ==
    /\ call.made /\ ~call.state.isNight /\ call.hunterInput.action
    /\ call.meAfter.aiState.mode = "CHASE"

(***************************************************************************)
(* calculateBotInput applied to steering vectors on both sides of every    *)
(* threshold of the conversion.                                            *)
(***************************************************************************)
\* the components of a steering vector, in thousandths
SteerValues == {-1500, -501, -500, -300, -101, -100, 0, 100, 101, 300, 500, 501, 1500}

\* one call calculateBotInput(prev.demon, prev.hunter, ...) of the loop
BotCall(dt, sees, moveDir) ==
    /\ ~call.made
    /\ gameState.phase = "PLAYING"
    /\ \E draw \in [point : {Vec(6, 34)}, frames : {2}] :
          LET bot == calculateBotInput(gameState.demon, gameState.hunter,
                                       gameState.mushrooms, gameState.isNight,
                                       dt, sees, moveDir, draw)
          IN  /\ gameState' = [gameState EXCEPT !.demon = bot.me]
              /\ call' = [made |-> TRUE, state |-> gameState, dt |-> dt,
                          demonInput |-> bot.input,
                          me |-> gameState.demon, meAfter |-> bot.me,
                          sees |-> sees, moveDir |-> moveDir]
    /\ UNCHANGED <<ticks, netVars>>

SpecSteer ==
    InitBot /\ [][\E dt \in DtValues, sees \in BOOLEAN,
                     moveDir \in [x : SteerValues, y : SteerValues] :
                      BotCall(dt, sees, moveDir)]_vars

\* C38: the input calculateBotInput returns never has up and down together
\* nor left and right together, and the call on a stunned demon returns the
\* input with every key false.
C38_NoOppositeKeys ==
    call.made =>
        /\ ~(call.demonInput.up /\ call.demonInput.down)
        /\ ~(call.demonInput.left /\ call.demonInput.right)
        /\ call.me.stunTimer > 0 => call.demonInput = noInput

\* a vector between the two thresholds on one axis has pressed one key, and
\* a vector past both has pressed two
C38_Witness ==
    /\ call.made /\ call.me.stunTimer = 0
    /\ call.moveDir = Vec(-1500, 501)
    /\ call.demonInput.left /\ call.demonInput.down
    /\ ~call.demonInput.right /\ ~call.demonInput.up

oneKeyOnly ==
    /\ call.made /\ call.moveDir = Vec(-1500, 500)
    /\ call.demonInput.left /\ ~call.demonInput.down

stunnedWithVector ==
    /\ call.made /\ call.me.stunTimer > 0 /\ call.moveDir = Vec(1500, 1500)
    /\ call.demonInput = noInput

\* C33: the hunter is in the cabin only at night.
C33_ShelteredOnlyAtNight == gameState.hunter.inCabin => gameState.isNight

\* the night has ended in a tick that would have completed the entry of the
\* hunter standing at the door
C33_Witness ==
    /\ played /\ pre.isNight /\ ~gameState.isNight
    /\ ~pre.hunter.inCabin /\ inCabinRange(pre) /\ inCabinRange(gameState)
    /\ pre.hunter.enterTimer > 0
    /\ pre.hunter.enterTimer + call.dt >= CABIN_ENTER_DURATION
    /\ ~gameState.hunter.inCabin

\* C34: while the match is running the demon is revealed exactly at night.
C34_RevealedExactlyAtNight ==
    gameState.phase = "PLAYING" => (gameState.demon.isRevealed <=> gameState.isNight)

\* a tick has flipped to night and revealed the demon
C34_Witness ==
    /\ played /\ ~pre.isNight /\ ~pre.demon.isRevealed
    /\ gameState.phase = "PLAYING"
    /\ gameState.isNight /\ gameState.demon.isRevealed

\* a tick has flipped to day and hidden the demon again; a demon shot by
\* day is revealed by day, in a match that is over; a demon hit at night
\* stays revealed
hiddenAtDawn ==
    /\ played /\ pre.isNight /\ pre.demon.isRevealed
    /\ gameState.phase = "PLAYING"
    /\ ~gameState.isNight /\ ~gameState.demon.isRevealed

revealedByDay ==
    /\ played /\ ~gameState.isNight /\ gameState.demon.isRevealed
    /\ gameState.phase = "GAME_OVER_HUNTER_WINS"

stunnedAndRevealed ==
    /\ played /\ said("DEMON_STUNNED")
    /\ gameState.isNight /\ gameState.demon.isRevealed

\* C35: a tick ends the match for the hunter only by day and for the demon
\* only at night, and no tick does both.
C35_OutcomeMatchesTimeOfDay ==
    played =>
        /\ gameState.phase = "GAME_OVER_HUNTER_WINS" => ~gameState.isNight
        /\ gameState.phase = "GAME_OVER_DEMON_WINS" => gameState.isNight
        /\ ~(said("DEMON_KILLED") /\ said("HUNTER_CAUGHT"))

\* the demon has caught the hunter at night
C35_Witness ==
    /\ played /\ said("HUNTER_CAUGHT")
    /\ gameState.isNight /\ gameState.phase = "GAME_OVER_DEMON_WINS"

\* the demon has been shot by day; a bullet has hit the demon in the tick
\* in which it caught the hunter
shotByDay ==
    /\ played /\ said("DEMON_KILLED")
    /\ ~gameState.isNight /\ gameState.phase = "GAME_OVER_HUNTER_WINS"

caughtAndHit ==
    /\ played /\ said("HUNTER_CAUGHT") /\ said("DEMON_STUNNED")
    /\ gameState.phase = "GAME_OVER_DEMON_WINS"

(***************************************************************************)
(* Ticks whose dt does not divide the time the stun has left.              *)
(***************************************************************************)
SpecStun ==
    Init /\ [][\E hunterInput \in {noInput, keyAction}, dt \in 0..(MaxDt + 1) :
                  Tick(hunterInput, noInput, dt)]_vars

\* C36: demon.stunTimer is never below 0 and never above
\* DEMON_STUN_DURATION.
C36_StunTimerInRange ==
    /\ 0 <= gameState.demon.stunTimer
    /\ gameState.demon.stunTimer <= DEMON_STUN_DURATION

\* a tick longer than the time the stun had left has taken the timer below 0
stunBelowZero ==
    /\ played /\ pre.demon.stunTimer > 0 /\ pre.demon.stunTimer < call.dt
    /\ gameState.demon.stunTimer = pre.demon.stunTimer - call.dt

\* the timer is never above DEMON_STUN_DURATION, and it is never counted
\* down from 0 or below
stunAtMostDuration == gameState.demon.stunTimer <= DEMON_STUN_DURATION

stunStopsBelowZero ==
    played /\ pre.demon.stunTimer <= 0 /\ ~said("DEMON_STUNNED") =>
        gameState.demon.stunTimer = pre.demon.stunTimer

(***************************************************************************)
(* The client after the end of a match: the last state the host sent is    *)
(* the target, the player goes back to the lobby, the loop runs on.        *)
(***************************************************************************)
\* GameOverModal onRestart on the client
ClientRestart ==
    /\ clientApp.gameMode = "ONLINE_CLIENT"
    /\ isGameOver(clientApp.gameState.phase)
    /\ clientApp' = [clientApp EXCEPT !.gameState.phase = "LOBBY"]
    /\ UNCHANGED <<simVars, hostApp, conns, delivered, received>>

\* the match has ended: the last STATE_UPDATE applied carries a game-over
\* phase, the state on screen is that state or the one a frame before it
InitRestart ==
    /\ \E target \in {s \in MatchStates : isGameOver(s.phase)} :
          \E current \in {s \in MatchStates : s.phase = "PLAYING"} \cup {target} :
             /\ gameState = target
             /\ clientApp = [clientInit EXCEPT !.gameState = current,
                                               !.targetGameStateRef = target,
                                               !.gameStartedRef = TRUE,
                                               !.gameMode = "ONLINE_CLIENT"]
    /\ call = noCall
    /\ ticks = 0
    /\ hostApp = hostInit
    /\ conns = noConns
    /\ delivered = noPacket
    /\ received = noPacket

SpecRestart ==
    InitRestart /\ [][ClientRestart
                   \/ \E sends \in BOOLEAN, t \in LerpT : ClientFrame(noInput, sends, t)]_vars

\* C39: once the client's player has gone back to the lobby the client's
\* phase stays LOBBY in every step that is not the receipt of a packet or
\* the close of the connection: a frame of the loop leaves it LOBBY.
C39_LobbyStaysAfterRestart ==
    [][clientApp.gameState.phase = "LOBBY" => clientApp'.gameState.phase = "LOBBY"]_vars

\* the restart clears neither the started flag nor the target of the loop
targetKept ==
    clientApp.gameState.phase = "LOBBY" =>
        /\ clientApp.gameStartedRef
        /\ isGameOver(clientApp.targetGameStateRef.phase)

(***************************************************************************)
(* The roles of the two peers: the host chooses its role in the lobby, the  *)
(* client is told by LOBBY_UPDATE and by START_GAME.                        *)
(***************************************************************************)
\* Lobby onSetRole on the host (the card of the other role), and the
\* LOBBY_UPDATE effect that runs on the change of myRole
HostSetRole(role) ==
    /\ gameState.phase = "LOBBY"
    /\ role # hostApp.myRole
    /\ LET k == hostApp.connRef
           tells == k # 0 /\ hostApp.opponentMode = "CONNECTED"
       IN  /\ tells => hasRoom(conns[k].toClient)
           /\ conns' = IF tells /\ conns[k].host = "OPEN"
                       THEN [conns EXCEPT ![k].toClient =
                                Append(@, [type |-> "LOBBY_UPDATE", hostRole |-> role])]
                       ELSE conns
    /\ hostApp' = [hostApp EXCEPT !.myRole = role]
    /\ UNCHANGED <<simVars, clientApp, delivered, received>>

\* initializeHost peer.on('connection') conn.on('open'), packet by packet:
\* the handler sends the myRole of the render in which initializeHost ran
\* (closureRole), and the LOBBY_UPDATE effect sends the current one after it
\* when opponentMode has changed
HostOpen(k, closureRole) ==
    /\ conns[k].host = "NEW"
    /\ conns' = [conns EXCEPT
                    ![k].host = "OPEN",
                    ![k].toClient =
                        <<[type |-> "LOBBY_UPDATE", hostRole |-> closureRole]>>
                        \o (IF hostApp.opponentMode # "CONNECTED"
                            THEN <<[type |-> "LOBBY_UPDATE", hostRole |-> hostApp.myRole]>>
                            ELSE <<>>)]
    /\ hostApp' = [hostApp EXCEPT !.opponentMode = "CONNECTED", !.connRef = k]
    /\ UNCHANGED <<simVars, clientApp, delivered, received>>

Roles == {"HUNTER", "DEMON"}

SpecRoles ==
    InitNet /\ [][\/ JoinGame
                  \/ \E k \in ConnIds : ClientConnOpen(k)
                  \/ \E k \in ConnIds, closureRole \in Roles : HostOpen(k, closureRole)
                  \/ \E k \in ConnIds : ClientData(k)
                  \/ \E role \in Roles : HostSetRole(role)
                  \/ \E spawnPos \in HostSpawns : HostStartGame(spawnPos)
                  \/ \E localInput \in {keyAction} : HostFrame(localInput, 1)
                  \/ ClientBack]_vars

\* the client has applied the START_GAME of the match the host is running
inTheMatch(k) ==
    /\ gameState.phase = "PLAYING"
    /\ hostApp.gameStartedRef
    /\ hostApp.connRef = k
    /\ clientApp.gameMode = "ONLINE_CLIENT"
    /\ clientApp.connRef = k
    /\ clientApp.gameStartedRef
    /\ conns[k].started

\* C40: once the client has applied the START_GAME of the match the host is
\* running, its role is the opposite of the role whose input the host takes
\* locally, whatever role switches and LOBBY_UPDATE packets came before.
C40_OppositeRoles ==
    \A k \in ConnIds : inTheMatch(k) => clientApp.myRole = otherRole(hostApp.myRole)

\* the client has come back on a second connection and was told a role the
\* host no longer has; the host plays the demon, its first tick has run
C40_Witness ==
    /\ inTheMatch(2)
    /\ hostApp.myRole = "DEMON"
    /\ clientApp.myRole = "HUNTER"
    /\ delivered.made /\ delivered.data.type = "START_GAME"
    /\ delivered.before.myRole = "HUNTER"
    /\ call.made /\ call.demonInput = keyAction

\* in the lobby the client may hold the role the host has
sameRoleInLobby ==
    /\ gameState.phase = "LOBBY"
    /\ clientApp.gameMode = "ONLINE_CLIENT"
    /\ clientApp.connRef = hostApp.connRef
    /\ conns[clientApp.connRef].toClient = <<>>
    /\ clientApp.myRole = hostApp.myRole

====
